---- MODULE Spec2Model ----
(***************************************************************************)
(* Tilt.Renderer (immediate-mode renderer state machine) and the color     *)
(* parsing of Tilt.Math.                                                   *)
(*                                                                         *)
(* JavaScript arrays are objects: a matrix or a color is modelled as a     *)
(* reference into a heap, so that copying (mat4.create(m)), in-place       *)
(* writes (mat4.identity(m), tint[3] = 1) and sharing (the color cache)    *)
(* are distinguishable.                                                    *)
(*                                                                         *)
(* A 4x4 matrix is the 16-tuple of glMatrix (column-major, entry k of the  *)
(* JavaScript array at index k+1), over the integers.  A color channel c   *)
(* in 0..1 is represented by the integer 255*c, so [1,0,0,1] is            *)
(* <<255,0,0,255>>.  A color string is the sequence of its characters.     *)
(***************************************************************************)
EXTENDS Integers, Sequences, FiniteSets, TLC

VARIABLES
  mvMatrix,          \* this.mvMatrix: reference to the current model view matrix
  mvMatrixStack,     \* this.mvMatrixStack: sequence of matrix references
  matHeap,           \* the matrix objects: reference -> 16-tuple, or NoMat
  tintColor,         \* this.tintColor: reference to a color array
  fillColor,         \* this.fillColor
  strokeColor,       \* this.strokeColor
  colHeap,           \* the color arrays: reference -> 4-tuple, or NoCol
  cache,             \* Tilt.Math[color]: color string -> reference, or NoRef
  strokeWeightValue, \* this.strokeWeightValue
  glState,           \* the backend state set through gl.enable/disable/blendFunc/lineWidth
  rectModeValue,     \* this.rectangle.rectModeValue
  imageModeValue,    \* this.rectangle.imageModeValue
  projMatrix,        \* this.projMatrix: the value of the projection matrix
  thisWidth,         \* this.width
  thisHeight,        \* this.height
  lastTime,          \* this.lastTime
  currentTime,       \* this.currentTime
  frameDelta,        \* this.frameDelta
  frameRate,         \* this.frameRate, as the fraction <<numerator, denominator>>
  elapsedTime,       \* this.elapsedTime
  frameCount,        \* this.frameCount
  ownFields,         \* whether the object still has its own fields (destroy deletes them)
  resources,         \* the owned sub-resources: whether the field is there, and
                     \* history: how often the object was created and destroyed
  lastCall,          \* history: the operation that produced this state, with its arguments
  glLog,             \* history: the calls that operation made, in order: backend (gl)
                     \* calls, and calls of the renderer's own matrix methods
  nPush,             \* history: number of pushMatrix calls made by the caller
  nPop,              \* history: number of popMatrix calls made by the caller
  nEmptyPop,         \* history: how many of those found the stack empty
  saved,             \* history: value of the model view matrix at each unmatched push
  loopTimes,         \* history: what the clock read in each loop call, in order
  elements           \* the GUI handler's list of elements (GUI.js), as element names

matVars == <<mvMatrix, mvMatrixStack, matHeap>>
colVars == <<tintColor, fillColor, strokeColor, colHeap, cache>>
glVars == <<strokeWeightValue, glState>>
modeVars == <<rectModeValue, imageModeValue>>
projVars == <<projMatrix, thisWidth, thisHeight>>
frameVars == <<lastTime, currentTime, frameDelta, frameRate, elapsedTime, frameCount>>
lifeVars == <<ownFields, resources>>
countVars == <<nPush, nPop, nEmptyPop, saved>>
\* the renderer and the cache, without the latest call
objectVars == <<matVars, colVars, glVars, modeVars, projVars, frameVars, lifeVars,
                glLog, countVars, loopTimes, elements>>
vars == <<matVars, colVars, glVars, modeVars, projVars, frameVars, lifeVars,
          lastCall, glLog, countVars, loopTimes, elements>>

----------------------------------------------------------------------------
(* Bounds of the model. *)

\* pushMatrix and popMatrix are each called at most this many times
MaxCalls == 2
\* matrix entries stay within -MaxCoord..MaxCoord
MaxCoord == 2
\* loop is called at most this many times
MaxFrames == 3
\* the coordinates of a ray's position are 0..MaxRay
MaxRay == 1
\* the clock (Date.getTime) reads 1..MaxTime
MaxTime == 3
\* the largest pixel coordinate of a point handed to unproject and createRay
MaxScreen == 2
\* isPowerOfTwo and nextPowerOfTwo are called with every number of 0..MaxBits
MaxBits == 40

----------------------------------------------------------------------------
(* 4x4 matrices (glMatrix). *)

NoMat == <<>>

Abs(x) == IF x < 0 THEN -x ELSE x

\* mat4.identity(dest)
Identity == <<1,0,0,0, 0,1,0,0, 0,0,1,0, 0,0,0,1>>

\* mat4.multiply(mat, mat2): entry (row r, column c) is at index 4*c + r + 1
Multiply(a, b) ==
  [k \in 1..16 |->
     LET r == (k - 1) % 4
         c == (k - 1) \div 4
     IN  a[r + 1] * b[4*c + 1] + a[r + 5] * b[4*c + 2]
       + a[r + 9] * b[4*c + 3] + a[r + 13] * b[4*c + 4]]

\* mat4.translate(mat, [x, y, z]): only the last column changes
MatTranslate(m, v) ==
  [k \in 1..16 |->
     IF k <= 12 THEN m[k]
     ELSE m[k - 12] * v[1] + m[k - 8] * v[2] + m[k - 4] * v[3] + m[k]]

\* mat4.scale(mat, [x, y, z]): the first three columns are multiplied
MatScale(m, v) ==
  [k \in 1..16 |->
     IF k <= 4 THEN m[k] * v[1]
     ELSE IF k <= 8 THEN m[k] * v[2]
     ELSE IF k <= 12 THEN m[k] * v[3]
     ELSE m[k]]

InRange(m) == \A k \in 1..16 : Abs(m[k]) <= MaxCoord

\* a matrix handed to transform(): a uniform scaling by 2 with the
\* translation column (1, 0, 0)
ScaleAndShift == <<2,0,0,0, 0,2,0,0, 0,0,2,0, 1,0,0,1>>

TranslateArgs == {<<1, 0, 0>>}
ScaleArgs == {<<2, 2, 2>>}
TransformArgs == {ScaleAndShift}

----------------------------------------------------------------------------
(* The matrix heap.  References are 1..MaxCalls+2; a new object takes the  *)
(* smallest free reference, and after each operation the live objects are  *)
(* renamed in order of first occurrence in stack \o <<current>> (object    *)
(* identity is only meaningful up to renaming).                            *)

MatRefs == 1..(MaxCalls + 2)

LiveMat(mv, stack) == {mv} \cup {stack[i] : i \in 1..Len(stack)}

NewMatRef(mv, stack) ==
  CHOOSE r \in MatRefs :
    /\ r \notin LiveMat(mv, stack)
    /\ \A q \in MatRefs : q \notin LiveMat(mv, stack) => r <= q

Rename(mv, stack) ==
  LET seq == Append(stack, mv)
      First(r) == CHOOSE i \in 1..Len(seq) :
                    seq[i] = r /\ \A j \in 1..(i - 1) : seq[j] # r
  IN  [r \in LiveMat(mv, stack) |->
         Cardinality({seq[j] : j \in 1..First(r)})]

----------------------------------------------------------------------------
(* The renderer and the Tilt.Math cache as one record, so that a method    *)
(* that calls other methods is the composition of their operators.  log is *)
(* the sequence of calls the operation has made so far: the backend (gl)   *)
(* calls and the calls of the matrix methods.                              *)

Cur ==
  [ mv |-> mvMatrix, stack |-> mvMatrixStack, mheap |-> matHeap,
    tint |-> tintColor, fill |-> fillColor, stroke |-> strokeColor,
    cheap |-> colHeap, cache |-> cache,
    sw |-> strokeWeightValue, gl |-> glState,
    rectMode |-> rectModeValue, imageMode |-> imageModeValue,
    proj |-> projMatrix, width |-> thisWidth, height |-> thisHeight,
    lastTime |-> lastTime, currentTime |-> currentTime,
    frameDelta |-> frameDelta, frameRate |-> frameRate,
    elapsedTime |-> elapsedTime, frameCount |-> frameCount,
    own |-> ownFields, res |-> resources,
    log |-> <<>> ]

\* Op(x), with x evaluated once
Force(x, Op(_)) == CHOOSE r \in {Op(v) : v \in {x}} : TRUE

\* the value of the current model view matrix
MvOf(st) == st.mheap[st.mv]

\* mat4.<op>(this.mvMatrix, ...) without a destination: written in place
SetMv(st, m) == [st EXCEPT !.mheap = [st.mheap EXCEPT ![st.mv] = m]]

\* a call of one of the matrix methods, as an entry of the log
Trace(st, call, arg) ==
  [st EXCEPT !.log = Append(st.log,
     [call |-> call, arg |-> arg, program |-> "none", vertices |-> "none",
      indices |-> "none", texCoord |-> "none", texture |-> "none",
      color |-> <<>>, mv |-> NoMat])]

\* pushMatrix as it would be without mat4.create: the stack entry is the
\* current matrix object itself
pushMatrixNoCopy(s) ==
  LET Body(st) ==
        Trace([st EXCEPT !.stack = Append(st.stack, st.mv)], "pushMatrix", <<>>)
  IN  Force(s, Body)

\* this.mvMatrixStack.push(mat4.create(this.mvMatrix))
pushMatrix(s) ==
  LET Body(st) ==
        LET r == NewMatRef(st.mv, st.stack)
        IN  Trace([st EXCEPT !.stack = Append(st.stack, r),
                             !.mheap = [st.mheap EXCEPT ![r] = st.mheap[st.mv]]],
                  "pushMatrix", <<>>)
  IN  Force(s, Body)

\* popMatrix as it would be if it read the top entry and left it on the stack
popMatrixPeek(s) ==
  LET Body(st) ==
        IF Len(st.stack) > 0
        THEN [st EXCEPT !.mv = st.stack[Len(st.stack)]]
        ELSE st
  IN  Force(Trace(s, "popMatrix", <<>>), Body)

\* popMatrix as it would be without the length test: Array.prototype.pop
\* gives undefined on an empty array
popMatrixUnguarded(s) ==
  LET Body(st) ==
        IF Len(st.stack) > 0
        THEN [st EXCEPT !.mv = st.stack[Len(st.stack)],
                        !.stack = SubSeq(st.stack, 1, Len(st.stack) - 1)]
        ELSE SetMv(st, NoMat)
  IN  Force(Trace(s, "popMatrix", <<>>), Body)

\* if (this.mvMatrixStack.length > 0) this.mvMatrix = this.mvMatrixStack.pop()
popMatrix(s) ==
  LET Body(st) ==
        IF Len(st.stack) > 0
        THEN [st EXCEPT !.mv = st.stack[Len(st.stack)],
                        !.stack = SubSeq(st.stack, 1, Len(st.stack) - 1)]
        ELSE st
  IN  Force(Trace(s, "popMatrix", <<>>), Body)

\* mat4.identity(this.mvMatrix)
origin(s) ==
  LET Body(st) == Trace(SetMv(st, Identity), "origin", <<>>) IN Force(s, Body)

\* mat4.multiply(this.mvMatrix, matrix)
transform(s, matrix) ==
  LET Body(st) == Trace(SetMv(st, Multiply(MvOf(st), matrix)), "transform", <<matrix>>)
  IN  Force(s, Body)

\* mat4.translate(this.mvMatrix, [x, y, z || 0])
translate(s, v) ==
  LET Body(st) == Trace(SetMv(st, MatTranslate(MvOf(st), v)), "translate", v)
  IN  Force(s, Body)

\* mat4.scale(this.mvMatrix, [x, y, z || 0])
scale(s, v) ==
  LET Body(st) == Trace(SetMv(st, MatScale(MvOf(st), v)), "scale", v)
  IN  Force(s, Body)

----------------------------------------------------------------------------
(* Color strings and Tilt.Math.hex2rgba. *)

NoCol == <<>>
NoRef == [kind |-> "undefined", key |-> <<>>]

HexDigits == <<"0","1","2","3","4","5","6","7","8","9","a","b","c","d","e","f">>
HexVal(c) == (CHOOSE i \in 1..Len(HexDigits) : HexDigits[i] = c) - 1
DecDigits == <<"0","1","2","3","4","5","6","7","8","9">>
DecVal(c) == (CHOOSE i \in 1..Len(DecDigits) : DecDigits[i] = c) - 1

\* String.prototype.substring(from, to), on 0-based positions
Substring(s, from, to) == SubSeq(s, from + 1, to)

\* parseInt(s, 16) of a string of hexadecimal digits
RECURSIVE ParseInt16(_)
ParseInt16(s) ==
  IF Len(s) = 0 THEN 0
  ELSE 16 * ParseInt16(SubSeq(s, 1, Len(s) - 1)) + HexVal(s[Len(s)])

\* the numeric conversion of a decimal string field by the operator /=
\* (surrounding blanks are ignored)
RECURSIVE ToNumber(_)
ToNumber(s) ==
  IF Len(s) = 0 THEN 0
  ELSE IF s[Len(s)] = " " THEN ToNumber(SubSeq(s, 1, Len(s) - 1))
  ELSE IF s[1] = " " THEN ToNumber(Tail(s))
  ELSE 10 * ToNumber(SubSeq(s, 1, Len(s) - 1)) + DecVal(s[Len(s)])

\* String.prototype.split(',')
RECURSIVE Split(_)
Split(s) ==
  IF \A i \in 1..Len(s) : s[i] # ","
  THEN <<s>>
  ELSE LET i == CHOOSE j \in 1..Len(s) :
                  s[j] = "," /\ \A k \in 1..(j - 1) : s[k] # ","
       IN  <<SubSeq(s, 1, i - 1)>> \o Split(SubSeq(s, i + 1, Len(s)))

StartsWith(s, p) == Len(s) >= Len(p) /\ SubSeq(s, 1, Len(p)) = p

\* the short form expanded without doubling its digits
ExpandHexPadded(color) ==
  LET hex == IF Len(color) > 0 /\ color[1] = "#" THEN Tail(color) ELSE color
  IN  IF Len(hex) = 3
      THEN <<"0", hex[1], "0", hex[2], "0", hex[3], "f", "f">>
      ELSE IF Len(hex) = 4
      THEN <<hex[1], hex[1], hex[2], hex[2], hex[3], hex[3], hex[4], hex[4]>>
      ELSE hex

\* the hex digits hex2rgba parses, after the "#" is dropped and the short
\* forms are expanded (lines 318-334)
ExpandHex(color) ==
  LET hex == IF Len(color) > 0 /\ color[1] = "#" THEN Tail(color) ELSE color
  IN  IF Len(hex) = 3
      THEN <<hex[1], hex[1], hex[2], hex[2], hex[3], hex[3], "f", "f">>
      ELSE IF Len(hex) = 4
      THEN <<hex[1], hex[1], hex[2], hex[2], hex[3], hex[3], hex[4], hex[4]>>
      ELSE hex

\* the value hex2rgba computes for a string that is not in the cache yet;
\* a channel value n stands for n / 255
ParseColor(color) ==
  LET hex == ExpandHex(color)
  IN  IF StartsWith(hex, <<"r","g","b","a">>)
      THEN LET rgba == Split(Substring(hex, 5, Len(hex) - 1))
           IN  <<ToNumber(rgba[1]), ToNumber(rgba[2]), ToNumber(rgba[3]),
                 ToNumber(rgba[4])>>
      ELSE IF StartsWith(hex, <<"r","g","b">>)
      THEN LET rgba == Split(Substring(hex, 4, Len(hex) - 1))
           IN  <<ToNumber(rgba[1]), ToNumber(rgba[2]), ToNumber(rgba[3]), 255>>
      ELSE <<ParseInt16(Substring(hex, 0, 2)), ParseInt16(Substring(hex, 2, 4)),
             ParseInt16(Substring(hex, 4, 6)),
             IF Len(hex) = 6 THEN 255 ELSE ParseInt16(Substring(hex, 6, 8))>>

\* whether hex2rgba takes one of the two branches that return the array they
\* have just stored (lines 336-356)
IsRgbForm(color) == StartsWith(ExpandHex(color), <<"r","g","b">>)

White == <<"#","f","f","f">>
Black == <<"#","0","0","0">>
Red3 == <<"#","f","0","0">>
Red6 == <<"#","f","f","0","0","0","0">>
RedHalf == <<"#","f","0","0","8">>
RedRgb == <<"r","g","b","(","2","5","5",",","0",",","0",")">>
ClearRgba == <<"r","g","b","a","(","2","5","5",","," ","0",",","0",",","0",")">>

\* the color strings of the model, and those tint, fill and stroke are
\* called with
ColorStrings == {White, Black, Red3, Red6, RedHalf, RedRgb, ClearRgba}
ColorArgs == {White, Black, ClearRgba}

\* The color arrays.  The array stored in the cache for a string and the
\* second array literal hex2rgba returns on a miss of a hex string are
\* different objects.
CacheRef(color) == [kind |-> "cache", key |-> color]
FreshRef(color) == [kind |-> "fresh", key |-> color]
ColRefs == {CacheRef(c) : c \in ColorStrings} \cup {FreshRef(c) : c \in ColorStrings}

\* Tilt.Math.hex2rgba(color): the state after the call and the array returned
hex2rgba(s, color) ==
  LET Body(st) ==
        IF st.cache[color] # NoRef
        THEN [st |-> st, ret |-> st.cache[color]]
        ELSE IF IsRgbForm(color)
        THEN [st |-> [st EXCEPT
                        !.cache = [st.cache EXCEPT ![color] = CacheRef(color)],
                        !.cheap = [st.cheap EXCEPT
                                     ![CacheRef(color)] = ParseColor(color)]],
              ret |-> CacheRef(color)]
        ELSE [st |-> [st EXCEPT
                        !.cache = [st.cache EXCEPT ![color] = CacheRef(color)],
                        !.cheap = [st.cheap EXCEPT
                                     ![CacheRef(color)] = ParseColor(color),
                                     ![FreshRef(color)] = ParseColor(color)]],
              ret |-> FreshRef(color)]
  IN  Force(s, Body)

----------------------------------------------------------------------------
(* Draw state. *)

\* one backend call; the fields a call does not have are "none"
GlCall(call, arg) ==
  [call |-> call, arg |-> arg, program |-> "none", vertices |-> "none",
   indices |-> "none", texCoord |-> "none", texture |-> "none",
   color |-> NoCol, mv |-> NoMat]

Issue(st, c) == [st EXCEPT !.log = Append(st.log, c)]

\* this.tintColor = Tilt.Math.hex2rgba(color)
tint(s, color) ==
  LET Body(h) == [h.st EXCEPT !.tint = h.ret] IN Force(hex2rgba(s, color), Body)

\* tint[0] = 1; tint[1] = 1; tint[2] = 1; tint[3] = 1, on the stored array
noTint(s) ==
  LET Body(st) ==
        [st EXCEPT !.cheap = [st.cheap EXCEPT ![st.tint] = <<255, 255, 255, 255>>]]
  IN  Force(s, Body)

\* this.fillColor = Tilt.Math.hex2rgba(color)
fill(s, color) ==
  LET Body(h) == [h.st EXCEPT !.fill = h.ret] IN Force(hex2rgba(s, color), Body)

\* fill[0] = 0; fill[1] = 0; fill[2] = 0; fill[3] = 0, on the stored array
noFill(s) ==
  LET Body(st) == [st EXCEPT !.cheap = [st.cheap EXCEPT ![st.fill] = <<0, 0, 0, 0>>]]
  IN  Force(s, Body)

\* this.strokeColor = Tilt.Math.hex2rgba(color)
stroke(s, color) ==
  LET Body(h) == [h.st EXCEPT !.stroke = h.ret] IN Force(hex2rgba(s, color), Body)

\* stroke[0] = 0; ... stroke[3] = 0, on the stored array
noStroke(s) ==
  LET Body(st) == [st EXCEPT !.cheap = [st.cheap EXCEPT ![st.stroke] = <<0, 0, 0, 0>>]]
  IN  Force(s, Body)

\* strokeWeight as it would be without the comparison with the stored value
strokeWeightAlways(s, value) ==
  LET Body(st) ==
        Issue([st EXCEPT !.sw = value, !.gl.lineWidth = value],
              GlCall("lineWidth", <<value>>))
  IN  Force(s, Body)

\* gl.lineWidth(value) only when the value differs from the stored one
strokeWeight(s, value) ==
  LET Body(st) ==
        IF st.sw # value
        THEN Issue([st EXCEPT !.sw = value, !.gl.lineWidth = value],
                   GlCall("lineWidth", <<value>>))
        ELSE st
  IN  Force(s, Body)

BlendModes == {"alpha", "add", "additive", "undefined"}

\* blendMode as it would be without the final else branch: a mode that is
\* neither "alpha" nor "add" leaves the backend as it was
blendModeNoDisable(s, mode) ==
  LET Body(st) ==
        IF mode = "alpha"
        THEN [st EXCEPT
                !.gl.blend = TRUE,
                !.gl.blendFunc = <<"SRC_ALPHA", "ONE_MINUS_SRC_ALPHA">>,
                !.log = st.log \o
                        <<GlCall("enable", <<"BLEND">>),
                          GlCall("blendFunc", <<"SRC_ALPHA", "ONE_MINUS_SRC_ALPHA">>)>>]
        ELSE IF mode = "add" \/ mode = "additive"
        THEN [st EXCEPT
                !.gl.blend = TRUE,
                !.gl.blendFunc = <<"SRC_ALPHA", "ONE">>,
                !.log = st.log \o
                        <<GlCall("enable", <<"BLEND">>),
                          GlCall("blendFunc", <<"SRC_ALPHA", "ONE">>)>>]
        ELSE st
  IN  Force(s, Body)

blendMode(s, mode) ==
  LET Body(st) ==
        IF mode = "alpha"
        THEN [st EXCEPT
                !.gl.blend = TRUE,
                !.gl.blendFunc = <<"SRC_ALPHA", "ONE_MINUS_SRC_ALPHA">>,
                !.log = st.log \o
                        <<GlCall("enable", <<"BLEND">>),
                          GlCall("blendFunc", <<"SRC_ALPHA", "ONE_MINUS_SRC_ALPHA">>)>>]
        ELSE IF mode = "add" \/ mode = "additive"
        THEN [st EXCEPT
                !.gl.blend = TRUE,
                !.gl.blendFunc = <<"SRC_ALPHA", "ONE">>,
                !.log = st.log \o
                        <<GlCall("enable", <<"BLEND">>),
                          GlCall("blendFunc", <<"SRC_ALPHA", "ONE">>)>>]
        ELSE [st EXCEPT !.gl.blend = FALSE,
                        !.log = Append(st.log, GlCall("disable", <<"BLEND">>))]
  IN  Force(s, Body)

depthTest(s, mode) ==
  LET Body(st) ==
        IF mode
        THEN [st EXCEPT !.gl.depthTest = TRUE,
                        !.log = Append(st.log, GlCall("enable", <<"DEPTH_TEST">>))]
        ELSE [st EXCEPT !.gl.depthTest = FALSE,
                        !.log = Append(st.log, GlCall("disable", <<"DEPTH_TEST">>))]
  IN  Force(s, Body)

defaults(s) ==
  strokeWeight(
    stroke(fill(tint(depthTest(blendMode(s, "alpha"), FALSE), White), White), Black),
    1)

----------------------------------------------------------------------------
(* Primitives. *)

\* the test as it would be on the array instead of its alpha channel
\* (if (stroke) instead of if (stroke[3])): an array is always true
TruthyArray(x) == TRUE

\* the truth value JavaScript gives a number in a condition
Truthy(x) == x # 0

NoTexture == [name |-> "undefined", width |-> 0, height |-> 0]
TextureArgs == {[name |-> "texture", width |-> 4, height |-> 2]}

\* useColorShader(verticesBuffer, color) followed by drawVertices(mode, ...)
\* or drawIndexedVertices(mode, indices): the uniforms are bound with the
\* matrices and the color as they are at that moment
ColorDraw(st, call, mode, vertices, indices, color) ==
  Issue(st, [call |-> call, arg |-> <<mode>>, program |-> "colorShader",
             vertices |-> vertices, indices |-> indices, texCoord |-> "none",
             texture |-> "none", color |-> st.cheap[color], mv |-> MvOf(st)])

\* useTextureShader(verticesBuffer, texCoordBuffer, color, texture) followed
\* by the draw call
TextureDraw(st, call, mode, vertices, indices, texCoord, color, texture) ==
  Issue(st, [call |-> call, arg |-> <<mode>>, program |-> "textureShader",
             vertices |-> vertices, indices |-> indices, texCoord |-> texCoord,
             texture |-> texture.name, color |-> st.cheap[color], mv |-> MvOf(st)])

\* triangle as it would be with the buffer built on first use: no buffer
\* when neither pass is drawn
triangleLazyBuffer(s, v0, v1, v2) ==
  LET Outline(st) ==
        IF Truthy(st.cheap[st.stroke][4])
        THEN ColorDraw(st, "drawArrays", "LINE_LOOP", "triangle", "none", st.stroke)
        ELSE st
      Body(st) ==
        IF Truthy(st.cheap[st.fill][4])
        THEN ColorDraw(st, "drawArrays", "TRIANGLE_STRIP", "triangle", "none", st.fill)
        ELSE st
      New(st) ==
        IF Truthy(st.cheap[st.stroke][4]) \/ Truthy(st.cheap[st.fill][4])
        THEN Issue(st, GlCall("newVertexBuffer", v0 \o v1 \o v2))
        ELSE st
  IN  Force(Force(Force(s, New), Outline), Body)

\* triangle as it would be with the fill pass before the stroke pass
triangleFillFirst(s, v0, v1, v2) ==
  LET Outline(st) ==
        IF Truthy(st.cheap[st.stroke][4])
        THEN ColorDraw(st, "drawArrays", "LINE_LOOP", "triangle", "none", st.stroke)
        ELSE st
      Body(st) ==
        IF Truthy(st.cheap[st.fill][4])
        THEN ColorDraw(st, "drawArrays", "TRIANGLE_STRIP", "triangle", "none", st.fill)
        ELSE st
      New(st) == Issue(st, GlCall("newVertexBuffer", v0 \o v1 \o v2))
  IN  Force(Force(Force(s, New), Body), Outline)

\* new Tilt.VertexBuffer(v0.concat(v1, v2), 3), then the two passes
triangle(s, v0, v1, v2) ==
  LET Outline(st) ==
        IF Truthy(st.cheap[st.stroke][4])
        THEN ColorDraw(st, "drawArrays", "LINE_LOOP", "triangle", "none", st.stroke)
        ELSE st
      Body(st) ==
        IF Truthy(st.cheap[st.fill][4])
        THEN ColorDraw(st, "drawArrays", "TRIANGLE_STRIP", "triangle", "none", st.fill)
        ELSE st
      New(st) == Issue(st, GlCall("newVertexBuffer", v0 \o v1 \o v2))
  IN  Force(Force(Force(s, New), Outline), Body)

rectMode(s, mode) ==
  LET Body(st) == [st EXCEPT !.rectMode = mode] IN Force(s, Body)

\* rect as it would be with the two passes in the other order
rectFillFirst(s, x, y, width, height) ==
  LET Outline(st) ==
        IF Truthy(st.cheap[st.stroke][4])
        THEN ColorDraw(st, "drawArrays", "LINE_STRIP",
                       "rectangleWireframe.vertices", "none", st.stroke)
        ELSE st
      Body(st) ==
        IF Truthy(st.cheap[st.fill][4])
        THEN ColorDraw(st, "drawArrays", "TRIANGLE_STRIP",
                       "rectangle.vertices", "none", st.fill)
        ELSE st
      Call(st) ==
        LET cx == IF st.rectMode = "center" THEN x - width \div 2 ELSE x
            cy == IF st.rectMode = "center" THEN y - height \div 2 ELSE y
        IN  popMatrix(
              Force(Force(scale(translate(pushMatrix(st), <<cx, cy, 0>>),
                                <<width, height, 1>>),
                          Body),
                    Outline))
  IN  Force(s, Call)

\* rect as it would be with scale called before translate
rectScaleFirst(s, x, y, width, height) ==
  LET Outline(st) ==
        IF Truthy(st.cheap[st.stroke][4])
        THEN ColorDraw(st, "drawArrays", "LINE_STRIP",
                       "rectangleWireframe.vertices", "none", st.stroke)
        ELSE st
      Body(st) ==
        IF Truthy(st.cheap[st.fill][4])
        THEN ColorDraw(st, "drawArrays", "TRIANGLE_STRIP",
                       "rectangle.vertices", "none", st.fill)
        ELSE st
      Call(st) ==
        LET cx == IF st.rectMode = "center" THEN x - width \div 2 ELSE x
            cy == IF st.rectMode = "center" THEN y - height \div 2 ELSE y
        IN  popMatrix(
              Force(Force(translate(scale(pushMatrix(st), <<width, height, 1>>),
                                    <<cx, cy, 0>>),
                          Outline),
                    Body))
  IN  Force(s, Call)

\* rect as it would be if it read the anchor mode of the images
rectByImageMode(s, x, y, width, height) ==
  LET Outline(st) ==
        IF Truthy(st.cheap[st.stroke][4])
        THEN ColorDraw(st, "drawArrays", "LINE_STRIP",
                       "rectangleWireframe.vertices", "none", st.stroke)
        ELSE st
      Body(st) ==
        IF Truthy(st.cheap[st.fill][4])
        THEN ColorDraw(st, "drawArrays", "TRIANGLE_STRIP",
                       "rectangle.vertices", "none", st.fill)
        ELSE st
      Call(st) ==
        LET cx == IF st.imageMode = "center" THEN x - width \div 2 ELSE x
            cy == IF st.imageMode = "center" THEN y - height \div 2 ELSE y
        IN  popMatrix(
              Force(Force(scale(translate(pushMatrix(st), <<cx, cy, 0>>),
                                <<width, height, 1>>),
                          Outline),
                    Body))
  IN  Force(s, Call)

\* width and height are even in every call of the model, so that the halves
\* of the "center" mode are integers
rect(s, x, y, width, height) ==
  LET Outline(st) ==
        IF Truthy(st.cheap[st.stroke][4])
        THEN ColorDraw(st, "drawArrays", "LINE_STRIP",
                       "rectangleWireframe.vertices", "none", st.stroke)
        ELSE st
      Body(st) ==
        IF Truthy(st.cheap[st.fill][4])
        THEN ColorDraw(st, "drawArrays", "TRIANGLE_STRIP",
                       "rectangle.vertices", "none", st.fill)
        ELSE st
      Call(st) ==
        LET cx == IF st.rectMode = "center" THEN x - width \div 2 ELSE x
            cy == IF st.rectMode = "center" THEN y - height \div 2 ELSE y
        IN  popMatrix(
              Force(Force(scale(translate(pushMatrix(st), <<cx, cy, 0>>),
                                <<width, height, 1>>),
                          Outline),
                    Body))
  IN  Force(s, Call)

imageMode(s, mode) ==
  LET Body(st) == [st EXCEPT !.imageMode = mode] IN Force(s, Body)

\* image as it would be with pushMatrix ahead of the test of the tint and
\* popMatrix left inside it
imagePushFirst(s, t, x, y, width, height, texCoord) ==
  LET texCoordBuffer == IF texCoord # "undefined" THEN texCoord
                        ELSE "rectangle.texCoord"
      omitted == width = <<>> \/ height = <<>>
      w == IF omitted THEN t.width ELSE width[1]
      h == IF omitted THEN t.height ELSE height[1]
      Body(st) ==
        TextureDraw(st, "drawArrays", "TRIANGLE_STRIP", "rectangle.vertices", "none",
                    texCoordBuffer, st.tint, t)
      Call(st) ==
        IF Truthy(st.cheap[st.tint][4])
        THEN popMatrix(Force(scale(translate(st, <<x, y, 0>>), <<w, h, 1>>), Body))
        ELSE st
  IN  Force(pushMatrix(s), Call)

\* width, height: <<>> when the argument is omitted, <<n>> otherwise;
\* texCoord: "undefined" when omitted
image(s, t, x, y, width, height, texCoord) ==
  LET texCoordBuffer == IF texCoord # "undefined" THEN texCoord
                        ELSE "rectangle.texCoord"
      omitted == width = <<>> \/ height = <<>>
      w == IF omitted THEN t.width ELSE width[1]
      h == IF omitted THEN t.height ELSE height[1]
      Body(st) ==
        TextureDraw(st, "drawArrays", "TRIANGLE_STRIP", "rectangle.vertices", "none",
                    texCoordBuffer, st.tint, t)
      Call(st) ==
        LET cx == IF st.imageMode = "center" THEN x - w \div 2 ELSE x
            cy == IF st.imageMode = "center" THEN y - h \div 2 ELSE y
        IN  IF Truthy(st.cheap[st.tint][4])
            THEN popMatrix(
                   Force(scale(translate(pushMatrix(st), <<cx, cy, 0>>), <<w, h, 1>>),
                         Body))
            ELSE st
  IN  Force(s, Call)

\* box as it would be with the flat pass outside the else branch
boxBothBodies(s, width, height, depth, texture) ==
  LET Outline(st) ==
        IF Truthy(st.cheap[st.stroke][4])
        THEN ColorDraw(st, "drawElements", "LINES", "cubeWireframe.vertices",
                       "cubeWireframe.indices", st.stroke)
        ELSE st
      Textured(st) ==
        IF texture # NoTexture /\ Truthy(st.cheap[st.tint][4])
        THEN TextureDraw(st, "drawElements", "TRIANGLES", "cube.vertices",
                         "cube.indices", "cube.texCoord", st.tint, texture)
        ELSE st
      Flat(st) ==
        IF Truthy(st.cheap[st.fill][4])
        THEN ColorDraw(st, "drawElements", "TRIANGLES", "cube.vertices",
                       "cube.indices", st.fill)
        ELSE st
  IN  popMatrix(
        Force(Force(Force(scale(pushMatrix(s), <<width, height, depth>>), Outline),
                    Textured),
              Flat))

box(s, width, height, depth, texture) ==
  LET Outline(st) ==
        IF Truthy(st.cheap[st.stroke][4])
        THEN ColorDraw(st, "drawElements", "LINES", "cubeWireframe.vertices",
                       "cubeWireframe.indices", st.stroke)
        ELSE st
      Body(st) ==
        IF texture # NoTexture
        THEN IF Truthy(st.cheap[st.tint][4])
             THEN TextureDraw(st, "drawElements", "TRIANGLES", "cube.vertices",
                              "cube.indices", "cube.texCoord", st.tint, texture)
             ELSE st
        ELSE IF Truthy(st.cheap[st.fill][4])
             THEN ColorDraw(st, "drawElements", "TRIANGLES", "cube.vertices",
                            "cube.indices", st.fill)
             ELSE st
  IN  popMatrix(
        Force(Force(scale(pushMatrix(s), <<width, height, depth>>), Outline), Body))

----------------------------------------------------------------------------
(* The projection matrix.  Its entries after perspective() involve         *)
(* tan(pi/8); the value of the matrix is represented by the call and the    *)
(* parameters it was computed from, a matrix given by the caller by its     *)
(* entries.                                                                 *)

\* this.projMatrix = mat4.identity(mat4.create())
Entries(m) == [op |-> "matrix", m |-> m, fov |-> 0, w |-> 0, h |-> 0]

\* mat4.perspective(45, w / h, z / 10, z * 100, dest) followed by
\* mat4.translate(dest, [-w / 2, -h / 2, -z]), z = (h / 2) / tan(pi / 8)
PerspectiveOf(w, h) == [op |-> "perspective", m |-> NoMat, fov |-> 45, w |-> w, h |-> h]

\* mat4.ortho(0, w, h, 0, -1000, 1000, dest)
OrthoOf(w, h) == [op |-> "ortho", m |-> NoMat, fov |-> 0, w |-> w, h |-> h]

perspective(s) ==
  LET Body(st) == [st EXCEPT !.proj = PerspectiveOf(st.width, st.height)]
  IN  Force(s, Body)

ortho(s) ==
  LET Body(st) == [st EXCEPT !.proj = OrthoOf(st.width, st.height)]
  IN  Force(s, Body)

\* mat4.set(matrix, this.projMatrix)
projection(s, matrix) ==
  LET Body(st) == [st EXCEPT !.proj = Entries(matrix)] IN Force(s, Body)

----------------------------------------------------------------------------
(* Frames. *)

\* this.currentTime = null
NullTime == -1

\* loop as it would be without the call of perspective()
loopKeepProjection(s, draw, now) ==
  LET Timed(st) ==
        LET delta == IF st.lastTime # 0 THEN now - st.lastTime ELSE st.frameDelta
        IN  [st EXCEPT !.currentTime = now,
                       !.frameDelta = delta,
                       !.frameRate = IF st.lastTime # 0 THEN <<1000, delta>>
                                     ELSE st.frameRate,
                       !.lastTime = now,
                       !.elapsedTime = st.elapsedTime + delta,
                       !.frameCount = st.frameCount + 1]
  IN  Force(origin(Issue(s, GlCall("requestAnimFrame", <<draw>>))), Timed)

\* loop as it would be with the delta computed in the first call too
loopDeltaAlways(s, draw, now) ==
  LET Timed(st) ==
        LET delta == now - st.lastTime
        IN  [st EXCEPT !.currentTime = now,
                       !.frameDelta = delta,
                       !.frameRate = <<1000, delta>>,
                       !.lastTime = now,
                       !.elapsedTime = st.elapsedTime + delta,
                       !.frameCount = st.frameCount + 1]
  IN  Force(perspective(origin(Issue(s, GlCall("requestAnimFrame", <<draw>>)))),
            Timed)

\* loop as it would be if it emptied the matrix stack too
loopClearStack(s, draw, now) ==
  LET Timed(st) ==
        LET delta == IF st.lastTime # 0 THEN now - st.lastTime ELSE st.frameDelta
        IN  [st EXCEPT !.stack = <<>>,
                       !.currentTime = now,
                       !.frameDelta = delta,
                       !.frameRate = IF st.lastTime # 0 THEN <<1000, delta>>
                                     ELSE st.frameRate,
                       !.lastTime = now,
                       !.elapsedTime = st.elapsedTime + delta,
                       !.frameCount = st.frameCount + 1]
  IN  Force(perspective(origin(Issue(s, GlCall("requestAnimFrame", <<draw>>)))),
            Timed)

\* now: what new Date().getTime() returns during the call
loop(s, draw, now) ==
  LET Timed(st) ==
        LET delta == IF st.lastTime # 0 THEN now - st.lastTime ELSE st.frameDelta
        IN  [st EXCEPT !.currentTime = now,
                       !.frameDelta = delta,
                       !.frameRate = IF st.lastTime # 0 THEN <<1000, delta>>
                                     ELSE st.frameRate,
                       !.lastTime = now,
                       !.elapsedTime = st.elapsedTime + delta,
                       !.frameCount = st.frameCount + 1]
  IN  Force(perspective(origin(Issue(s, GlCall("requestAnimFrame", <<draw>>)))),
            Timed)

----------------------------------------------------------------------------
(* Teardown.  The owned sub-resources are the fields of lines 128-153, in  *)
(* the order the constructor assigns them, which is the order for-in       *)
(* visits them.  Each of them has a destroy function.                      *)

ResourceOrder ==
  <<"colorShader", "textureShader", "rectangle", "rectangleWireframe",
    "cube", "cubeWireframe">>

Resources == {ResourceOrder[i] : i \in 1..Len(ResourceOrder)}

\* the outcome of a call that raised an exception
Raised == [kind |-> "raised", key |-> <<>>]

\* this[i].destroy(), which raises for the resources in throws
DestroyCall(r, throws) ==
  GlCall("destroy", <<r, IF r \in throws THEN "throws" ELSE "returns">>)

\* destroy as it would be without try and catch: the first exception ends
\* the loop and leaves destroy()
destroyNoCatch(s, throws) ==
  LET Body(st) ==
        LET present == SelectSeq(ResourceOrder, LAMBDA r : st.res[r].field)
            stop == IF \E i \in 1..Len(present) : present[i] \in throws
                    THEN CHOOSE i \in 1..Len(present) :
                           /\ present[i] \in throws
                           /\ \A j \in 1..(i - 1) : present[j] \notin throws
                    ELSE Len(present)
            done == {present[i] : i \in 1..stop}
        IN  [st |-> [st EXCEPT
                       !.log = st.log \o <<GlCall("clearCache", <<>>)>> \o
                               [i \in 1..stop |-> DestroyCall(present[i], throws)],
                       !.res = [r \in Resources |->
                                  IF r \in done
                                  THEN [st.res[r] EXCEPT
                                          !.field = FALSE,
                                          !.destroyed = st.res[r].destroyed + 1]
                                  ELSE st.res[r]],
                       !.own = st.own /\ done # {r \in Resources : st.res[r].field}],
             ret |-> IF \E i \in 1..Len(present) : present[i] \in throws
                     THEN Raised ELSE NoRef]
  IN  Force(s, Body)

\* destroy as it would be without delete this[i]
destroyKeepFields(s, throws) ==
  LET Body(st) ==
        LET present == SelectSeq(ResourceOrder, LAMBDA r : st.res[r].field)
        IN  [st |-> [st EXCEPT
                       !.log = st.log \o <<GlCall("clearCache", <<>>)>> \o
                               [i \in 1..Len(present) |->
                                  DestroyCall(present[i], throws)],
                       !.res = [r \in Resources |->
                                  IF st.res[r].field
                                  THEN [st.res[r] EXCEPT
                                          !.destroyed = st.res[r].destroyed + 1]
                                  ELSE st.res[r]]],
             ret |-> NoRef]
  IN  Force(s, Body)

\* Tilt.clearCache(), then for every member: destroy() of the member if it
\* has one, whatever is raised is caught, and the member is deleted.  On an
\* object whose own fields are deleted for-in finds the methods of the
\* prototype alone, and none of them has a destroy function.
destroy(s, throws) ==
  LET Body(st) ==
        LET present == SelectSeq(ResourceOrder, LAMBDA r : st.res[r].field)
        IN  [st |-> [st EXCEPT
                       !.log = st.log \o <<GlCall("clearCache", <<>>)>> \o
                               [i \in 1..Len(present) |->
                                  DestroyCall(present[i], throws)],
                       !.res = [r \in Resources |->
                                  IF st.res[r].field
                                  THEN [st.res[r] EXCEPT
                                          !.field = FALSE,
                                          !.destroyed = st.res[r].destroyed + 1]
                                  ELSE st.res[r]],
                       !.own = FALSE],
             ret |-> NoRef]
  IN  Force(s, Body)

----------------------------------------------------------------------------
(* From a record back to the variables. *)

\* Objects no variable refers to any more are dropped, and the live matrix
\* objects are renamed.
Canon(s) ==
  LET Body(st) ==
        LET ren == Rename(st.mv, st.stack)
            slots == {st.tint, st.fill, st.stroke}
        IN  [st EXCEPT
               !.mv = ren[st.mv],
               !.stack = [i \in 1..Len(st.stack) |-> ren[st.stack[i]]],
               !.mheap = [n \in MatRefs |->
                            IF \E r \in DOMAIN ren : ren[r] = n
                            THEN st.mheap[CHOOSE r \in DOMAIN ren : ren[r] = n]
                            ELSE NoMat],
               !.cheap = [r \in ColRefs |->
                            IF r.kind = "fresh" /\ r \notin slots THEN NoCol
                            ELSE st.cheap[r]]]
  IN  Force(s, Body)

Commit(st) ==
  \E c \in {Canon(st)} :
    /\ mvMatrix' = c.mv
    /\ mvMatrixStack' = c.stack
    /\ matHeap' = c.mheap
    /\ tintColor' = c.tint
    /\ fillColor' = c.fill
    /\ strokeColor' = c.stroke
    /\ colHeap' = c.cheap
    /\ cache' = c.cache
    /\ strokeWeightValue' = c.sw
    /\ glState' = c.gl
    /\ rectModeValue' = c.rectMode
    /\ imageModeValue' = c.imageMode
    /\ projMatrix' = c.proj
    /\ thisWidth' = c.width
    /\ thisHeight' = c.height
    /\ lastTime' = c.lastTime
    /\ currentTime' = c.currentTime
    /\ frameDelta' = c.frameDelta
    /\ frameRate' = c.frameRate
    /\ elapsedTime' = c.elapsedTime
    /\ frameCount' = c.frameCount
    /\ ownFields' = c.own
    /\ resources' = c.res
    /\ glLog' = c.log
    \* the GUI handler is another object: no renderer method touches its list
    /\ UNCHANGED elements

\* the call is recorded as the latest one, and a loop call with the time it
\* read (its second entry)
Called(name, args, ret) ==
  /\ lastCall' = [name |-> name, args |-> args, ret |-> ret]
  /\ loopTimes' = IF name = "loop" THEN Append(loopTimes, args[2]) ELSE loopTimes

\* The fields as the constructor sets them before it calls origin(),
\* perspective() and defaults() (lines 82-181).  The three [0,0,0,0] arrays
\* of lines 109-121 are replaced by defaults() before the constructor
\* returns, and nothing else refers to them.  The backend starts in the
\* WebGL initial state; the two modes start as the documented "corner".
Constructed(canvas) ==
  [ mv |-> 1, stack |-> <<>>,
    mheap |-> [n \in MatRefs |-> IF n = 1 THEN Identity ELSE NoMat],
    tint |-> NoRef, fill |-> NoRef, stroke |-> NoRef,
    cheap |-> [r \in ColRefs |-> NoCol],
    cache |-> [c \in ColorStrings |-> NoRef],
    sw |-> 0,
    gl |-> [blend |-> FALSE, blendFunc |-> <<"ONE", "ZERO">>,
            depthTest |-> FALSE, lineWidth |-> 1],
    rectMode |-> "corner", imageMode |-> "corner",
    proj |-> Entries(Identity),
    width |-> canvas.width, height |-> canvas.height,
    lastTime |-> 0, currentTime |-> NullTime,
    frameDelta |-> 0, frameRate |-> <<0, 1>>,
    elapsedTime |-> 0, frameCount |-> 0,
    own |-> TRUE,
    res |-> [r \in Resources |-> [field |-> TRUE, created |-> 1, destroyed |-> 0]],
    log |-> <<>> ]

\* the size of a canvas element that was given none, and the canvases of
\* the model
DefaultCanvas == [width |-> 300, height |-> 150]
CanvasArgs == {DefaultCanvas, [width |-> 200, height |-> 200]}

\* the call of the constructor, as the latest call
ConstructorCall == [name |-> "Tilt.Renderer", args |-> <<>>, ret |-> NoRef]

\* the variables hold the object st, no matrix call has been counted, and
\* the latest call is one of calls
Holding(st, calls) ==
  \E c \in {Canon(st)} :
    /\ mvMatrix = c.mv
    /\ mvMatrixStack = c.stack
    /\ matHeap = c.mheap
    /\ tintColor = c.tint
    /\ fillColor = c.fill
    /\ strokeColor = c.stroke
    /\ colHeap = c.cheap
    /\ cache = c.cache
    /\ strokeWeightValue = c.sw
    /\ glState = c.gl
    /\ rectModeValue = c.rectMode
    /\ imageModeValue = c.imageMode
    /\ projMatrix = c.proj
    /\ thisWidth = c.width
    /\ thisHeight = c.height
    /\ lastTime = c.lastTime
    /\ currentTime = c.currentTime
    /\ frameDelta = c.frameDelta
    /\ frameRate = c.frameRate
    /\ elapsedTime = c.elapsedTime
    /\ frameCount = c.frameCount
    /\ ownFields = c.own
    /\ resources = c.res
    /\ glLog = c.log
    /\ lastCall \in calls
    /\ nPush = 0
    /\ nPop = 0
    /\ nEmptyPop = 0
    /\ saved = <<>>
    /\ loopTimes = <<>>
    /\ elements = <<>>

\* the state the constructor leaves, given the canvas; calls: what the
\* latest call can be at that moment
Fresh(canvas, calls) ==
  Holding(defaults(perspective(origin(Constructed(canvas)))), calls)

Init == Fresh(DefaultCanvas, {ConstructorCall})

\* the constructor called with any canvas of the model
InitCanvas == \E canvas \in CanvasArgs : Fresh(canvas, {ConstructorCall})

----------------------------------------------------------------------------
(* Operations on the matrix stack. *)

PushMatrix ==
  /\ nPush < MaxCalls
  /\ Commit(pushMatrix(Cur))
  /\ Called("pushMatrix", <<>>, NoRef)
  /\ nPush' = nPush + 1
  /\ saved' = Append(saved, matHeap[mvMatrix])
  /\ UNCHANGED <<nPop, nEmptyPop>>

PopMatrix ==
  /\ nPop < MaxCalls
  /\ Commit(popMatrix(Cur))
  /\ Called("popMatrix", <<>>, NoRef)
  /\ nPop' = nPop + 1
  /\ nEmptyPop' = IF Len(mvMatrixStack) = 0 THEN nEmptyPop + 1 ELSE nEmptyPop
  /\ saved' = IF Len(saved) = 0 THEN saved ELSE SubSeq(saved, 1, Len(saved) - 1)
  /\ UNCHANGED nPush

Origin ==
  /\ Commit(origin(Cur))
  /\ Called("origin", <<>>, NoRef)
  /\ UNCHANGED countVars

Transform(matrix) ==
  /\ InRange(Multiply(matHeap[mvMatrix], matrix))
  /\ Commit(transform(Cur, matrix))
  /\ Called("transform", <<matrix>>, NoRef)
  /\ UNCHANGED countVars

Translate(v) ==
  /\ InRange(MatTranslate(matHeap[mvMatrix], v))
  /\ Commit(translate(Cur, v))
  /\ Called("translate", v, NoRef)
  /\ UNCHANGED countVars

Scale(v) ==
  /\ InRange(MatScale(matHeap[mvMatrix], v))
  /\ Commit(scale(Cur, v))
  /\ Called("scale", v, NoRef)
  /\ UNCHANGED countVars

NextMatrix ==
  \/ PushMatrix
  \/ PopMatrix
  \/ Origin
  \/ \E m \in TransformArgs : Transform(m)
  \/ \E v \in TranslateArgs : Translate(v)
  \/ \E v \in ScaleArgs : Scale(v)

SpecMatrix == Init /\ [][NextMatrix]_vars

----------------------------------------------------------------------------
(* Operations on the draw state. *)

WeightArgs == {1, 2}

Tint(color) ==
  /\ Commit(tint(Cur, color))
  /\ Called("tint", <<color>>, NoRef)
  /\ UNCHANGED countVars

NoTint ==
  /\ Commit(noTint(Cur))
  /\ Called("noTint", <<>>, NoRef)
  /\ UNCHANGED countVars

Fill(color) ==
  /\ Commit(fill(Cur, color))
  /\ Called("fill", <<color>>, NoRef)
  /\ UNCHANGED countVars

NoFill ==
  /\ Commit(noFill(Cur))
  /\ Called("noFill", <<>>, NoRef)
  /\ UNCHANGED countVars

Stroke(color) ==
  /\ Commit(stroke(Cur, color))
  /\ Called("stroke", <<color>>, NoRef)
  /\ UNCHANGED countVars

NoStroke ==
  /\ Commit(noStroke(Cur))
  /\ Called("noStroke", <<>>, NoRef)
  /\ UNCHANGED countVars

StrokeWeight(value) ==
  /\ Commit(strokeWeight(Cur, value))
  /\ Called("strokeWeight", <<value>>, NoRef)
  /\ UNCHANGED countVars

BlendMode(mode) ==
  /\ Commit(blendMode(Cur, mode))
  /\ Called("blendMode", <<mode>>, NoRef)
  /\ UNCHANGED countVars

DepthTest(mode) ==
  /\ Commit(depthTest(Cur, mode))
  /\ Called("depthTest", <<mode>>, NoRef)
  /\ UNCHANGED countVars

Defaults ==
  /\ Commit(defaults(Cur))
  /\ Called("defaults", <<>>, NoRef)
  /\ UNCHANGED countVars

\* a direct call of Tilt.Math.hex2rgba; the caller drops the array returned
Hex2rgba(color) ==
  \E h \in {hex2rgba(Cur, color)} :
    /\ Commit(h.st)
    /\ Called("hex2rgba", <<color>>, h.ret)
    /\ UNCHANGED countVars

NextState ==
  \/ \E c \in ColorArgs : Tint(c)
  \/ NoTint
  \/ \E c \in ColorArgs : Fill(c)
  \/ NoFill
  \/ \E c \in ColorArgs : Stroke(c)
  \/ NoStroke
  \/ \E w \in WeightArgs : StrokeWeight(w)
  \/ \E m \in BlendModes : BlendMode(m)
  \/ \E b \in BOOLEAN : DepthTest(b)
  \/ Defaults

SpecState == Init /\ [][NextState]_vars

\* the stroke weights of the calls that only set the backend state; 0 is the
\* value the constructor stores before it calls defaults()
LineWidthArgs == {0, 1, 2, 3}

\* the setters of the backend state alone
NextGl ==
  \/ \E w \in LineWidthArgs : StrokeWeight(w)
  \/ \E m \in BlendModes : BlendMode(m)
  \/ \E b \in BOOLEAN : DepthTest(b)
  \/ Defaults

SpecGl == Init /\ [][NextGl]_vars

\* direct calls of hex2rgba, with every color string of the model
NextCache ==\E c \in ColorStrings : Hex2rgba(c)

SpecCache == Init /\ [][NextCache]_vars

----------------------------------------------------------------------------
(* Primitive calls. *)

TriangleArgs == {<<<<0, 0, 0>>, <<2, 0, 0>>, <<0, 2, 0>>>>}
RectArgs == {<<10, 10, 50, 30>>}
ImageArgs ==
  {[x |-> 0, y |-> 0, width |-> <<>>, height |-> <<>>, texCoord |-> "undefined"],
   [x |-> 2, y |-> 2, width |-> <<6>>, height |-> <<4>>, texCoord |-> "custom"]}
BoxArgs == {<<2, 4, 6>>}
ModeArgs == {"corner", "center"}

Triangle(v) ==
  /\ Commit(triangle(Cur, v[1], v[2], v[3]))
  /\ Called("triangle", v, NoRef)
  /\ UNCHANGED countVars

RectMode(mode) ==
  /\ Commit(rectMode(Cur, mode))
  /\ Called("rectMode", <<mode>>, NoRef)
  /\ UNCHANGED countVars

Rect(a) ==
  /\ Commit(rect(Cur, a[1], a[2], a[3], a[4]))
  /\ Called("rect", a, NoRef)
  /\ UNCHANGED countVars

ImageMode(mode) ==
  /\ Commit(imageMode(Cur, mode))
  /\ Called("imageMode", <<mode>>, NoRef)
  /\ UNCHANGED countVars

Image(t, a) ==
  /\ Commit(image(Cur, t, a.x, a.y, a.width, a.height, a.texCoord))
  /\ Called("image", <<t, a>>, NoRef)
  /\ UNCHANGED countVars

Box(a, texture) ==
  /\ Commit(box(Cur, a[1], a[2], a[3], texture))
  /\ Called("box", <<a, texture>>, NoRef)
  /\ UNCHANGED countVars

\* the primitives, in every combination of visible and invisible passes, of
\* anchor modes and of stack depths
NextDraw ==
  \/ \E v \in TriangleArgs : Triangle(v)
  \/ \E a \in RectArgs : Rect(a)
  \/ \E t \in TextureArgs, a \in ImageArgs : Image(t, a)
  \/ \E a \in BoxArgs, t \in TextureArgs \cup {NoTexture} : Box(a, t)
  \/ \E m \in ModeArgs : RectMode(m)
  \/ \E m \in ModeArgs : ImageMode(m)
  \/ PushMatrix
  \/ PopMatrix
  \/ \E c \in {ClearRgba} : Tint(c)
  \/ NoTint
  \/ NoFill
  \/ NoStroke
  \/ Defaults

SpecDraw == Init /\ [][NextDraw]_vars

----------------------------------------------------------------------------
(* Tilt.Math.intersectRayTriangle, on vectors of integers.  The quotients  *)
(* r, s and t are fractions of integers; they are compared exactly, by the *)
(* signs of their numerators and denominators.  A vector the function       *)
(* writes is given as [v |-> <<x, y, z>>, d |-> n], the vector v / n.       *)

\* vec3.subtract(a, b, dest)
Subtract(a, b) == <<a[1] - b[1], a[2] - b[2], a[3] - b[3]>>

\* vec3.cross(a, b, dest)
Cross(a, b) ==
  <<a[2] * b[3] - a[3] * b[2], a[3] * b[1] - a[1] * b[3], a[1] * b[2] - a[2] * b[1]>>

\* vec3.dot(a, b)
Dot(a, b) == a[1] * b[1] + a[2] * b[2] + a[3] * b[3]

\* an array of integers, as a vector of fractions
Whole(a) == [v |-> a, d |-> 1]

\* what a call returns and what it leaves in the arrays of its arguments
Returned(value, ray, intersection) ==
  [kind |-> "returned", key |-> <<>>, value |-> value, ray |-> ray,
   intersection |-> intersection]

\* a call that was made and has not returned
Pending == [kind |-> "pending", key |-> <<>>]

\* intersectRayTriangle as it would be without the test of the normal
intersectRayTriangleNoDegenerate(v0, v1, v2, ray, intersection) ==
  LET n == Cross(Subtract(v1, v0), Subtract(v2, v0))
      a == -Dot(n, Subtract(ray.position, v0))
      b == Dot(n, ray.direction)
      same == [position |-> Whole(ray.position), direction |-> Whole(ray.direction)]
  IN  IF b = 0
      THEN Returned(IF a = 0 THEN 2 ELSE 0, same, Whole(intersection))
      ELSE Returned(0, same, Whole(intersection))

\* intersectRayTriangle as it would be with the two results of the parallel
\* case exchanged
intersectRayTriangleSwapped(v0, v1, v2, ray, intersection) ==
  LET n == Cross(Subtract(v1, v0), Subtract(v2, v0))
      a == -Dot(n, Subtract(ray.position, v0))
      b == Dot(n, ray.direction)
      same == [position |-> Whole(ray.position), direction |-> Whole(ray.direction)]
  IN  IF n = <<0, 0, 0>>
      THEN Returned(-1, same, Whole(intersection))
      ELSE IF b = 0
      THEN Returned(IF a = 0 THEN 0 ELSE 2, same, Whole(intersection))
      ELSE Returned(0, same, Whole(intersection))

\* intersectRayTriangle as it would be without the test of the sign of r
intersectRayTriangleBehind(v0, v1, v2, ray, intersection) ==
  LET pos == ray.position
      dir == ray.direction
      u == Subtract(v1, v0)
      v == Subtract(v2, v0)
      n == Cross(u, v)
      w0 == Subtract(pos, v0)
      a == -Dot(n, w0)
      b == Dot(n, dir)
      same == [position |-> Whole(pos), direction |-> Whole(dir)]
      scaled == [position |-> Whole(pos),
                 direction |-> [v |-> <<dir[1] * a, dir[2] * a, dir[3] * a>>, d |-> b]]
      point == [v |-> <<pos[1] * b + dir[1] * a, pos[2] * b + dir[2] * a,
                        pos[3] * b + dir[3] * a>>, d |-> b]
      wb == <<w0[1] * b + dir[1] * a, w0[2] * b + dir[2] * a, w0[3] * b + dir[3] * a>>
      D == Dot(u, v) * Dot(u, v) - Dot(u, u) * Dot(v, v)
      den == b * D
      sn == Dot(u, v) * Dot(wb, v) - Dot(v, v) * Dot(wb, u)
      tn == Dot(u, v) * Dot(wb, u) - Dot(u, u) * Dot(wb, v)
  IN  IF n = <<0, 0, 0>>
      THEN Returned(-1, same, Whole(intersection))
      ELSE IF b = 0
      THEN Returned(IF a = 0 THEN 2 ELSE 0, same, Whole(intersection))
      ELSE IF sn * den < 0 \/ (sn - den) * den > 0
      THEN Returned(0, scaled, point)
      ELSE IF tn * den < 0 \/ (sn + tn - den) * den > 0
      THEN Returned(0, scaled, point)
      ELSE Returned(1, scaled, point)

\* vec3.scale(dir, r) has no destination and writes dir * r into dir;
\* vec3.add(pos, dir, intersection) writes the point into intersection
intersectRayTriangle(v0, v1, v2, ray, intersection) ==
  LET pos == ray.position
      dir == ray.direction
      u == Subtract(v1, v0)
      v == Subtract(v2, v0)
      n == Cross(u, v)
      w0 == Subtract(pos, v0)
      a == -Dot(n, w0)
      b == Dot(n, dir)
      same == [position |-> Whole(pos), direction |-> Whole(dir)]
      \* from here on b # 0 and r = a / b
      scaled == [position |-> Whole(pos),
                 direction |-> [v |-> <<dir[1] * a, dir[2] * a, dir[3] * a>>, d |-> b]]
      point == [v |-> <<pos[1] * b + dir[1] * a, pos[2] * b + dir[2] * a,
                        pos[3] * b + dir[3] * a>>, d |-> b]
      uu == Dot(u, u)
      uv == Dot(u, v)
      vv == Dot(v, v)
      \* w = intersection - v0 = wb / b
      wb == <<w0[1] * b + dir[1] * a, w0[2] * b + dir[2] * a, w0[3] * b + dir[3] * a>>
      wu == Dot(wb, u)
      wv == Dot(wb, v)
      D == uv * uv - uu * vv
      \* s = sn / den, t = tn / den
      den == b * D
      sn == uv * wv - vv * wu
      tn == uv * wu - uu * wv
  IN  IF n[1] = 0 /\ n[2] = 0 /\ n[3] = 0
      THEN Returned(-1, same, Whole(intersection))
      ELSE IF Abs(b) * 10000 < 1
      THEN Returned(IF a = 0 THEN 2 ELSE 0, same, Whole(intersection))
      ELSE IF a * b < 0
      THEN Returned(0, same, Whole(intersection))
      ELSE IF sn * den < 0 \/ (sn - den) * den > 0
      THEN Returned(0, scaled, point)
      ELSE IF tn * den < 0 \/ (sn + tn - den) * den > 0
      THEN Returned(0, scaled, point)
      ELSE Returned(1, scaled, point)

\* the triangles, rays and arrays of the calls
Points(lo, hi) == {<<x, y, z>> : x \in lo..hi, y \in lo..hi, z \in lo..hi}

RayCalls ==
  { [name |-> "intersectRayTriangle",
     args |-> <<<<0, 0, 0>>, v1, v2, [position |-> pos, direction |-> dir], <<0, 0, 0>>>>,
     ret |-> Pending] :
      v1 \in Points(0, 1), v2 \in Points(0, 1),
      pos \in Points(0, MaxRay), dir \in Points(-1, 1) }

InitRay == Fresh(DefaultCanvas, RayCalls)

\* the call returns
IntersectRayTriangle ==
  /\ lastCall.name = "intersectRayTriangle"
  /\ lastCall.ret.kind = "pending"
  /\ lastCall' = [lastCall EXCEPT
                    !.ret = intersectRayTriangle(lastCall.args[1], lastCall.args[2],
                              lastCall.args[3], lastCall.args[4], lastCall.args[5])]
  /\ UNCHANGED objectVars

NextRay == IntersectRayTriangle

SpecRay == InitRay /\ [][NextRay]_vars

----------------------------------------------------------------------------
(* Tilt.Math.unproject and createRay, on fractions of integers.  A number   *)
(* is [n |-> numerator, d |-> denominator] in lowest terms with d > 0; a    *)
(* quotient by zero and everything computed from it is NotFinite, which     *)
(* stands for Infinity and NaN alike.                                       *)

RECURSIVE Gcd(_, _)
Gcd(a, b) == IF b = 0 THEN a ELSE Gcd(b, a % b)

NotFinite == [n |-> 0, d |-> 0]

\* the number n / d
Frac(n, d) ==
  IF d = 0 THEN NotFinite
  ELSE LET g == Gcd(Abs(n), Abs(d))
           sign == IF d < 0 THEN -1 ELSE 1
       IN  [n |-> (sign * n) \div g, d |-> (sign * d) \div g]

FAdd(x, y) ==
  IF x.d = 0 \/ y.d = 0 THEN NotFinite ELSE Frac(x.n * y.d + y.n * x.d, x.d * y.d)

FSub(x, y) ==
  IF x.d = 0 \/ y.d = 0 THEN NotFinite ELSE Frac(x.n * y.d - y.n * x.d, x.d * y.d)

FMul(x, y) ==
  IF x.d = 0 \/ y.d = 0 THEN NotFinite ELSE Frac(x.n * y.n, x.d * y.d)

FDiv(x, y) ==
  IF x.d = 0 \/ y.d = 0 THEN NotFinite ELSE Frac(x.n * y.d, x.d * y.n)

\* entry (row r, column c) of a matrix, rows and columns counted from 0
Entry(m, r, c) == m[4 * c + r + 1]

\* the three of 0..3 that are not i, in order
Others(i) == IF i = 0 THEN <<1, 2, 3>> ELSE IF i = 1 THEN <<0, 2, 3>>
             ELSE IF i = 2 THEN <<0, 1, 3>> ELSE <<0, 1, 2>>

\* the cofactor of entry (r, c)
Cofactor(m, r, c) ==
  LET i == Others(r)
      j == Others(c)
      E(a, b) == Entry(m, i[a], j[b])
      minor == E(1,1) * (E(2,2) * E(3,3) - E(2,3) * E(3,2))
             - E(1,2) * (E(2,1) * E(3,3) - E(2,3) * E(3,1))
             + E(1,3) * (E(2,1) * E(3,2) - E(2,2) * E(3,1))
  IN  IF (r + c) % 2 = 0 THEN minor ELSE -minor

Determinant(m) ==
  Entry(m, 0, 0) * Cofactor(m, 0, 0) + Entry(m, 0, 1) * Cofactor(m, 0, 1)
    + Entry(m, 0, 2) * Cofactor(m, 0, 2) + Entry(m, 0, 3) * Cofactor(m, 0, 3)

\* mat4.inverse(mat): every cofactor times 1 / determinant, transposed
Inverse(m) ==
  LET det == Determinant(m)
  IN  [k \in 1..16 |-> Frac(Cofactor(m, (k - 1) \div 4, (k - 1) % 4), det)]

\* mat4.multiplyVec4(mat, vec)
MultiplyVec4(m, vec) ==
  LET Row(r) == FAdd(FAdd(FMul(m[r], vec[1]), FMul(m[r + 4], vec[2])),
                     FAdd(FMul(m[r + 8], vec[3]), FMul(m[r + 12], vec[4])))
  IN  <<Row(1), Row(2), Row(3), Row(4)>>

\* unproject as it would be without the change of sign of y
unprojectNoFlip(p, viewport, mvMatrixArg, projMatrixArg) ==
  LET mvpMatrix == Inverse(Multiply(projMatrixArg, mvMatrixArg))
      coordinates == <<Frac(2 * (p[1] - viewport[1]) - viewport[3], viewport[3]),
                       Frac(2 * (p[2] - viewport[2]) - viewport[4], viewport[4]),
                       Frac(2 * p[3] - 1, 1),
                       Frac(1, 1)>>
      Divided(c) == LET w == FDiv(Frac(1, 1), c[4])
                    IN  <<FMul(c[1], w), FMul(c[2], w), FMul(c[3], w), w>>
  IN  Force(Force(mvpMatrix, LAMBDA inv : MultiplyVec4(inv, coordinates)), Divided)

\* unproject(p, viewport, mvMatrix, projMatrix, out): the four numbers it
\* leaves in the array it returns
unproject(p, viewport, mvMatrixArg, projMatrixArg) ==
  LET mvpMatrix == Inverse(Multiply(projMatrixArg, mvMatrixArg))
      coordinates == <<Frac(2 * (p[1] - viewport[1]) - viewport[3], viewport[3]),
                       Frac(viewport[4] - 2 * (p[2] - viewport[2]), viewport[4]),
                       Frac(2 * p[3] - 1, 1),
                       Frac(1, 1)>>
      Divided(c) == LET w == FDiv(Frac(1, 1), c[4])
                    IN  <<FMul(c[1], w), FMul(c[2], w), FMul(c[3], w), w>>
  IN  Force(Force(mvpMatrix, LAMBDA inv : MultiplyVec4(inv, coordinates)), Divided)

\* an array of numbers as createRay leaves it: the vector xyz, or the vector
\* xyz divided by its length where vec3.normalize has written it, and the
\* fourth element w
Plain(c) == [unit |-> FALSE, xyz |-> <<c[1], c[2], c[3]>>, w |-> c[4]]

\* createRay(p0, p1, viewport, mvMatrix, projMatrix): both points are
\* unprojected into their own arrays; vec3.subtract(p1, p0) has no
\* destination and writes p1 - p0 into p1, and vec3.normalize of that array
\* has none either and writes the unit vector into p1 again, which it
\* returns.  The ray names the arrays, and arrays is what they hold when the
\* call returns.
createRay(p0, p1, viewport, mvMatrixArg, projMatrixArg) ==
  LET Ray(a) ==
        LET a0 == a[1]
            a1 == a[2]
            diff == <<FSub(a1[1], a0[1]), FSub(a1[2], a0[2]), FSub(a1[3], a0[3])>>
        IN  [kind |-> "returned", key |-> <<>>,
             value |-> [position |-> "p0", lookAt |-> "p1", direction |-> "p1"],
             arrays |-> [p0 |-> Plain(a0),
                         p1 |-> [unit |-> TRUE, xyz |-> diff, w |-> a1[4]]]]
  IN  Force(<<unproject(p0, viewport, mvMatrixArg, projMatrixArg),
              unproject(p1, viewport, mvMatrixArg, projMatrixArg)>>, Ray)

\* a projection with the eye at the origin that looks down -z, near plane at
\* distance 1 and far plane at distance 3
Frustum == <<1,0,0,0, 0,1,0,0, 0,0,-2,-1, 0,0,-3,0>>

\* a projection that drops z and has no inverse
Flat == <<1,0,0,0, 0,1,0,0, 0,0,0,0, 0,0,0,1>>

\* the forward pipeline unproject inverts: a point of object space is
\* multiplied by projection x model view, divided by its w, and mapped from
\* -1..1 to the viewport, y downwards, and to the depths 0..1
project(world, viewport, mvMatrixArg, projMatrixArg) ==
  LET m == Multiply(projMatrixArg, mvMatrixArg)
      clip == MultiplyVec4([k \in 1..16 |-> Frac(m[k], 1)],
                           <<world[1], world[2], world[3], Frac(1, 1)>>)
      Window(c) ==
        LET half == Frac(1, 2)
            one == Frac(1, 1)
            x == FDiv(c[1], c[4])
            y == FDiv(c[2], c[4])
            z == FDiv(c[3], c[4])
        IN  <<FAdd(Frac(viewport[1], 1),
                   FMul(FMul(FAdd(x, one), half), Frac(viewport[3], 1))),
              FAdd(Frac(viewport[2], 1),
                   FMul(FMul(FSub(one, y), half), Frac(viewport[4], 1))),
              FMul(FAdd(z, one), half)>>
  IN  Force(clip, Window)

ViewportArgs == {<<0, 0, 4, 2>>, <<1, 1, 2, 2>>}
ModelViewArgs == {Identity, ScaleAndShift}
ProjMatrixArgs == {Identity, Frustum, Flat}

\* points of the screen, at the near plane (z = 0) and at the far plane (z = 1)
ScreenPoints(z) == {<<x, y, z>> : x \in 0..MaxScreen, y \in 0..MaxScreen}

UnprojectCalls ==
  { [name |-> "unproject", args |-> <<p, viewport, mv, proj>>, ret |-> Pending] :
      p \in ScreenPoints(0) \cup ScreenPoints(1), viewport \in ViewportArgs,
      mv \in ModelViewArgs, proj \in ProjMatrixArgs }

CreateRayCalls ==
  { [name |-> "createRay", args |-> <<p0, p1, viewport, mv, proj>>, ret |-> Pending] :
      p0 \in ScreenPoints(0), p1 \in ScreenPoints(1), viewport \in ViewportArgs,
      mv \in ModelViewArgs, proj \in ProjMatrixArgs }

InitProject == Fresh(DefaultCanvas, UnprojectCalls \cup CreateRayCalls)

\* the calls return
Unproject ==
  /\ lastCall.name = "unproject"
  /\ lastCall.ret.kind = "pending"
  /\ lastCall' = [lastCall EXCEPT
                    !.ret = [kind |-> "returned", key |-> <<>>,
                             value |-> unproject(lastCall.args[1], lastCall.args[2],
                                                 lastCall.args[3], lastCall.args[4])]]
  /\ UNCHANGED objectVars

CreateRay ==
  /\ lastCall.name = "createRay"
  /\ lastCall.ret.kind = "pending"
  /\ lastCall' = [lastCall EXCEPT
                    !.ret = createRay(lastCall.args[1], lastCall.args[2], lastCall.args[3],
                                      lastCall.args[4], lastCall.args[5])]
  /\ UNCHANGED objectVars

NextProject == Unproject \/ CreateRay

SpecProject == InitProject /\ [][NextProject]_vars

----------------------------------------------------------------------------
(* The values of Tilt.Math.hex2rgba, for every "#rgb" string. *)

HexChars == {HexDigits[i] : i \in 1..Len(HexDigits)}

HexCalls ==
  { [name |-> "hex2rgba", args |-> <<color>>, ret |-> Pending] :
      color \in {<<"#", r, g, b>> : r \in HexChars, g \in HexChars, b \in HexChars}
                  \cup ColorStrings }

InitHex == Fresh(DefaultCanvas, HexCalls)

\* The call returns; what is recorded of the array it returns is the four
\* numbers in it.  The cache of the model has an entry for each of
\* ColorStrings; the other strings are not in the cache of Tilt.Math, the
\* call parses them (lines 317-364), and the entry it stores is not followed.
HexCall ==
  /\ lastCall.name = "hex2rgba"
  /\ lastCall.ret.kind = "pending"
  /\ LET color == lastCall.args[1]
         Value(v) == [kind |-> "returned", key |-> <<>>, value |-> v]
     IN  IF color \in ColorStrings
         THEN \E h \in {hex2rgba(Cur, color)} :
                /\ Commit(h.st)
                /\ lastCall' = [lastCall EXCEPT !.ret = Value(h.st.cheap[h.ret])]
                /\ UNCHANGED <<countVars, loopTimes>>
         ELSE /\ lastCall' = [lastCall EXCEPT !.ret = Value(ParseColor(color))]
              /\ UNCHANGED objectVars

NextHex == HexCall

SpecHex == InitHex /\ [][NextHex]_vars

----------------------------------------------------------------------------
(* Tilt.Math.isPowerOfTwo and nextPowerOfTwo.  The operators &, | and >>    *)
(* work on 32-bit integers in two's complement; a number here is an integer *)
(* of -2^31 .. 2^31 - 1 and its bits are those of that representation.      *)

\* the 31 low bits of x, as a number of 0 .. 2^31 - 1
LowBits(x) == IF x >= 0 THEN x ELSE (x + 1073741824) + 1073741824

\* the 32-bit integer with the sign bit and the 31 low bits given
FromBits(negative, low) == IF negative THEN (low - 1073741824) - 1073741824 ELSE low

RECURSIVE AndBits(_, _)
AndBits(a, b) ==
  IF a = 0 \/ b = 0 THEN 0
  ELSE 2 * AndBits(a \div 2, b \div 2) + (a % 2) * (b % 2)

RECURSIVE OrBits(_, _)
OrBits(a, b) ==
  IF a = 0 THEN b
  ELSE IF b = 0 THEN a
  ELSE 2 * OrBits(a \div 2, b \div 2) + (IF a % 2 = 1 \/ b % 2 = 1 THEN 1 ELSE 0)

\* x & y
BitAnd(x, y) == FromBits(x < 0 /\ y < 0, AndBits(LowBits(x), LowBits(y)))

\* x | y
BitOr(x, y) == FromBits(x < 0 \/ y < 0, OrBits(LowBits(x), LowBits(y)))

\* x >> i, which keeps the sign
ShiftRight(x, i) == x \div (2 ^ i)

\* isPowerOfTwo(x)
isPowerOfTwo(x) == BitAnd(x, x - 1) = 0

\* nextPowerOfTwo as it would be without the decrement of x
nextPowerOfTwoNoDecrement(x) ==
  LET Step(y, i) == BitOr(y, ShiftRight(y, i))
  IN  Step(Step(Step(Step(Step(x, 1), 2), 4), 8), 16) + 1

\* nextPowerOfTwo(x): the loop runs for i = 1, 2, 4, 8, 16
nextPowerOfTwo(x) ==
  LET Step(y, i) == Force(y, LAMBDA v : BitOr(v, ShiftRight(v, i)))
  IN  Step(Step(Step(Step(Step(x - 1, 1), 2), 4), 8), 16) + 1

\* the numbers the two functions are called with: the small ones, and for
\* each power of two up to 2^30 the power, the number before it and the
\* number after it
BitArgs ==
  (0..MaxBits) \cup UNION {{2 ^ k - 1, 2 ^ k, 2 ^ k + 1} : k \in 1..30}

BitCalls ==
  { [name |-> "isPowerOfTwo", args |-> <<x>>, ret |-> Pending] : x \in BitArgs }
    \cup { [name |-> "nextPowerOfTwo", args |-> <<x>>, ret |-> Pending] :
             x \in {y \in BitArgs : y <= 2 ^ 30} }

InitBits == Fresh(DefaultCanvas, BitCalls)

\* the calls return
IsPowerOfTwo ==
  /\ lastCall.name = "isPowerOfTwo"
  /\ lastCall.ret.kind = "pending"
  /\ lastCall' = [lastCall EXCEPT
                    !.ret = [kind |-> "returned", key |-> <<>>,
                             value |-> isPowerOfTwo(lastCall.args[1])]]
  /\ UNCHANGED objectVars

NextPowerOfTwo ==
  /\ lastCall.name = "nextPowerOfTwo"
  /\ lastCall.ret.kind = "pending"
  /\ lastCall' = [lastCall EXCEPT
                    !.ret = [kind |-> "returned", key |-> <<>>,
                             value |-> nextPowerOfTwo(lastCall.args[1])]]
  /\ UNCHANGED objectVars

NextBits == IsPowerOfTwo \/ NextPowerOfTwo

SpecBits == InitBits /\ [][NextBits]_vars

----------------------------------------------------------------------------
(* The constructor, from the call to the return.  Its parameters are, in    *)
(* the order of the function, canvas, failCallback and successCallback; a   *)
(* callback argument is a function or is left undefined.  What              *)
(* canvas.getContext does for each of the four context names is the fourth  *)
(* entry of the arguments: it returns a "context", returns "null" or        *)
(* "throws".                                                                *)

\* create3DContext(canvas): an exception of getContext is caught and leaves
\* the variable context as it was; the loop ends at the first context
RECURSIVE TryContexts(_, _, _)
TryContexts(outcomes, i, context) ==
  IF i > Len(outcomes) THEN context
  ELSE LET got == IF outcomes[i] = "throws" THEN context ELSE outcomes[i]
       IN  IF got = "context" THEN got ELSE TryContexts(outcomes, i + 1, got)

create3DContext(outcomes) == TryContexts(outcomes, 1, "undefined")

\* the object before the body of the constructor has set a field (the
\* variables of the fields hold what the constructor will first give them;
\* there is no size yet)
Allocated(canvas) ==
  [Constructed(canvas) EXCEPT
     !.width = 0, !.height = 0,
     !.own = FALSE,
     !.res = [r \in Resources |-> [field |-> FALSE, created |-> 0, destroyed |-> 0]]]

\* new Tilt.Renderer(canvas, second, third): the object and how the call
\* ends.  A callback that is called is logged with its position among the
\* arguments.  Without a context and without a function as failCallback the
\* body goes on, and defaults() fails in blendMode on this.gl.
construct(canvas, outcomes, second, third) ==
  LET failCallback == second
      successCallback == third
      gl == create3DContext(outcomes)
      done == [kind |-> "returned", key |-> <<>>]
  IN  IF gl # "undefined" /\ gl # "null"
      THEN LET called == IF successCallback = "function"
                         THEN Issue(Constructed(canvas), GlCall("callback", <<"third">>))
                         ELSE Constructed(canvas)
           IN  [st |-> defaults(perspective(origin(called))), ret |-> done]
      ELSE IF failCallback = "function"
      THEN [st |-> Issue(Allocated(canvas), GlCall("callback", <<"second">>)),
            ret |-> done]
      ELSE [st |-> perspective(origin(Constructed(canvas))), ret |-> Raised]

CallbackArgs == {"function", "undefined"}
ContextArgs ==
  {<<a, b, c, d>> : a \in {"context", "null", "throws"}, b \in {"context", "null", "throws"},
                    c \in {"context", "null", "throws"}, d \in {"context", "null", "throws"}}

NewCalls ==
  { [name |-> "Tilt.Renderer", args |-> <<canvas, second, third, outcomes>>,
     ret |-> Pending] :
      canvas \in CanvasArgs, second \in CallbackArgs, third \in CallbackArgs,
      outcomes \in ContextArgs }

InitNew == Holding(Allocated(DefaultCanvas), NewCalls)

\* the constructor runs
Construct ==
  /\ lastCall.name = "Tilt.Renderer"
  /\ lastCall.ret.kind = "pending"
  /\ \E c \in {construct(lastCall.args[1], lastCall.args[4], lastCall.args[2],
                         lastCall.args[3])} :
       /\ Commit(c.st)
       /\ lastCall' = [lastCall EXCEPT !.ret = c.ret]
  /\ UNCHANGED <<countVars, loopTimes>>

NextNew == Construct

SpecNew == InitNew /\ [][NextNew]_vars

----------------------------------------------------------------------------
(* Projection, frames and teardown. *)

ProjectionArgs == {ScaleAndShift}

Perspective ==
  /\ Commit(perspective(Cur))
  /\ Called("perspective", <<>>, NoRef)
  /\ UNCHANGED countVars

Ortho ==
  /\ Commit(ortho(Cur))
  /\ Called("ortho", <<>>, NoRef)
  /\ UNCHANGED countVars

Projection(matrix) ==
  /\ Commit(projection(Cur, matrix))
  /\ Called("projection", <<matrix>>, NoRef)
  /\ UNCHANGED countVars

Loop(now) ==
  /\ frameCount < MaxFrames
  /\ Commit(loop(Cur, "draw", now))
  /\ Called("loop", <<"draw", now>>, NoRef)
  /\ UNCHANGED countVars

\* throws: the sub-resources whose destroy function raises an exception
Destroy(throws) ==
  \E d \in {destroy(Cur, throws)} :
    /\ Commit(d.st)
    /\ Called("destroy", <<throws>>, d.ret)
    /\ UNCHANGED countVars

\* frames: the matrices between two loop calls
NextLoop ==
  \/ \E now \in 1..MaxTime : Loop(now)
  \/ Perspective
  \/ Ortho
  \/ \E m \in ProjectionArgs : Projection(m)
  \/ \E v \in TranslateArgs : Translate(v)
  \/ PushMatrix
  \/ PopMatrix

SpecLoop == InitCanvas /\ [][NextLoop]_vars

\* the life of a renderer: calls on an object whose fields are deleted are
\* left out, except destroy
NextLife ==
  \/ /\ ownFields
     /\ \/ \E v \in TriangleArgs : Triangle(v)
        \/ \E a \in RectArgs : Rect(a)
        \/ \E t \in TextureArgs, a \in ImageArgs : Image(t, a)
        \/ \E a \in BoxArgs, t \in TextureArgs \cup {NoTexture} : Box(a, t)
        \/ NoFill
  \/ \E throws \in SUBSET Resources : Destroy(throws)

SpecLife == Init /\ [][NextLife]_vars

----------------------------------------------------------------------------
(* The GUI handler (GUI.js): the list of elements and the click dispatch. *)

\* the list holds at most this many elements between two calls
MaxElements == 3

\* an element that has no $bounds field
NoBounds == <<>>

\* The elements of the model, by name.  bounds: the $bounds field, as
\* <<x, y, width, height>>.  onclick: what the element's onclick does to the
\* handler it is registered with; "none": the element has no onclick
\* function.
GuiElement ==
  [e \in {"plain", "far", "label", "unbounded", "closer", "opener"} |->
     CASE e = "plain" -> [bounds |-> <<0, 0, 4, 4>>,
                          onclick |-> [do |-> "nothing", what |-> ""]]
       [] e = "far" -> [bounds |-> <<2, 2, 4, 4>>,
                        onclick |-> [do |-> "nothing", what |-> ""]]
       [] e = "label" -> [bounds |-> <<0, 0, 4, 4>>,
                          onclick |-> [do |-> "none", what |-> ""]]
       [] e = "unbounded" -> [bounds |-> NoBounds,
                              onclick |-> [do |-> "nothing", what |-> ""]]
       [] e = "closer" -> [bounds |-> <<0, 0, 4, 4>>,
                           onclick |-> [do |-> "remove", what |-> "closer"]]
       [] e = "opener" -> [bounds |-> <<0, 0, 4, 4>>,
                           onclick |-> [do |-> "push", what |-> "far"]]]

GuiElements == DOMAIN GuiElement

\* elements.indexOf(e), counted from 1; 0 where the code gets -1
IndexOf(els, e) ==
  IF \E i \in 1..Len(els) : els[i] = e
  THEN CHOOSE i \in 1..Len(els) : els[i] = e /\ \A j \in 1..(i - 1) : els[j] # e
  ELSE 0

\* elements.splice(index, 1)
Splice(els, index) ==
  [i \in 1..(Len(els) - 1) |-> IF i < index THEN els[i] ELSE els[i + 1]]

\* els: the elements list; arguments: the elements passed
push(els, arguments) == els \o arguments

RECURSIVE remove(_, _)
remove(els, arguments) ==
  IF arguments = <<>> THEN els
  ELSE LET index == IndexOf(els, Head(arguments))
       IN  remove(IF index # 0 THEN Splice(els, index) ELSE els, Tail(arguments))

\* the test of lines 99-106
Inside(e, x, y) ==
  LET bounds == IF GuiElement[e].bounds # NoBounds THEN GuiElement[e].bounds
                ELSE <<-1, -1, -1, -1>>
  IN  /\ x > bounds[1] /\ x < bounds[1] + bounds[3]
      /\ y > bounds[2] /\ y < bounds[2] + bounds[4]

\* element.onclick(x, y), for an element that has one: the call is recorded,
\* and the handler's call of push or remove acts on the same list
Onclick(g, e) ==
  LET handler == GuiElement[e].onclick
  IN  [g EXCEPT !.clicked = Append(@, e),
                !.elements = CASE handler.do = "push" -> push(@, <<handler.what>>)
                               [] handler.do = "remove" -> remove(@, <<handler.what>>)
                               [] OTHER -> @]

\* The loop of lines 97-112 from index i on (counted from 1).  len is the
\* length read once before the first iteration; where the list has become
\* shorter, elements[i] is undefined and reading its $bounds raises a
\* TypeError, which ends the call.
RECURSIVE Dispatch(_, _, _, _, _)
Dispatch(g, i, len, x, y) ==
  IF i > len THEN g
  ELSE IF i > Len(g.elements) THEN [g EXCEPT !.raised = TRUE]
  ELSE LET element == g.elements[i]
       IN  IF Inside(element, x, y) /\ GuiElement[element].onclick.do # "none"
           THEN Dispatch(Onclick(g, element), i + 1, len, x, y)
           ELSE Dispatch(g, i + 1, len, x, y)

\* elements: the list after the call; clicked: the elements whose onclick
\* was called, in the order of the calls; raised: whether the call raised
click(els, x, y) ==
  Dispatch([elements |-> els, clicked |-> <<>>, raised |-> FALSE], 1, Len(els), x, y)

\* what a caller passes to push and to remove: one or two elements
ElementArgs ==
  {<<e>> : e \in GuiElements} \cup {<<e, f>> : e \in GuiElements, f \in {"plain", "closer"}}

ClickPoints == {<<0, 0>>, <<1, 1>>, <<3, 3>>, <<5, 5>>}

rendererVars == <<matVars, colVars, glVars, modeVars, projVars, frameVars, lifeVars,
                  glLog, countVars, loopTimes>>

GuiPush(arguments) ==
  /\ Len(elements) + Len(arguments) <= MaxElements
  /\ elements' = push(elements, arguments)
  /\ lastCall' = [name |-> "GUI.push", args |-> arguments, ret |-> NoRef]
  /\ UNCHANGED rendererVars

GuiRemove(arguments) ==
  /\ elements' = remove(elements, arguments)
  /\ lastCall' = [name |-> "GUI.remove", args |-> arguments, ret |-> NoRef]
  /\ UNCHANGED rendererVars

\* before: the list the call found
GuiClick(x, y) ==
  /\ Len(elements) <= MaxElements
  /\ \E g \in {click(elements, x, y)} :
       /\ elements' = g.elements
       /\ lastCall' = [name |-> "GUI.click", args |-> <<x, y>>,
                       ret |-> [kind |-> IF g.raised THEN "raised" ELSE "returned",
                                clicked |-> g.clicked,
                                before |-> elements]]
  /\ UNCHANGED rendererVars

NextGui ==
  \/ \E a \in ElementArgs : GuiPush(a)
  \/ \E a \in ElementArgs : GuiRemove(a)
  \/ \E p \in ClickPoints : GuiClick(p[1], p[2])

SpecGui == Init /\ [][NextGui]_vars

Next ==
  \/ NextRay
  \/ NextProject
  \/ NextHex
  \/ NextBits
  \/ NextNew
  \/ NextLoop
  \/ NextLife
  \/ NextMatrix
  \/ NextState
  \/ NextCache
  \/ NextDraw
  \/ NextGui

Spec == Init /\ [][Next]_vars

----------------------------------------------------------------------------
(* Claims about the matrix stack. *)

\* C1: as long as no popMatrix call found the stack empty, the depth of the
\* matrix stack after n pushMatrix and m popMatrix calls is n - m.
C1_DepthIsPushesMinusPops ==
  nEmptyPop = 0 => Len(mvMatrixStack) = nPush - nPop

C1_Witness ==
  nEmptyPop = 0 /\ nPush = 2 /\ nPop = 1 /\ Len(mvMatrixStack) = 1

\* C2: popMatrix on an empty stack changes nothing: the stack stays empty and
\* the current model view matrix keeps its value, which is a matrix.
C2_PopOnEmptyIsNoOp ==
  [][ (lastCall'.name = "popMatrix" /\ Len(mvMatrixStack) = 0)
        => /\ mvMatrixStack' = <<>>
           /\ matHeap'[mvMatrix'] = matHeap[mvMatrix]
           /\ matHeap'[mvMatrix'] # NoMat ]_vars

C2_Witness ==
  /\ lastCall.name = "popMatrix"
  /\ nEmptyPop > 0
  /\ mvMatrixStack = <<>>
  /\ matHeap[mvMatrix] # Identity

\* C3: every entry of the stack keeps the value the model view matrix had
\* when it was pushed, whatever is done to the current matrix afterwards, and
\* a popMatrix on a non-empty stack makes the value saved by the matching
\* pushMatrix the current one.
C3_PushSavesSnapshot ==
  [][ /\ Len(mvMatrixStack') = Len(saved')
      /\ \A i \in 1..Len(saved') : matHeap'[mvMatrixStack'[i]] = saved'[i]
      /\ (lastCall'.name = "popMatrix" /\ Len(mvMatrixStack) > 0)
           => matHeap'[mvMatrix'] = saved[Len(saved)] ]_vars

C3_Witness ==
  /\ lastCall.name = "popMatrix"
  /\ nPush = 2 /\ nPop = 1 /\ nEmptyPop = 0
  /\ matHeap[mvMatrix] # Identity
  /\ saved[1] # matHeap[mvMatrix]

----------------------------------------------------------------------------
(* Claims about the primitives. *)

Primitives == {"triangle", "rect", "image", "box"}

\* the alpha channel of a color array
Alpha(ref) == colHeap[ref][4]

\* the drawArrays and drawElements calls of a log
DrawCalls(log) ==
  SelectSeq(log, LAMBDA c : c.call \in {"drawArrays", "drawElements"})

\* whether the box or image call was given a texture
HasTexture(call) ==
  \/ call.name = "image"
  \/ call.name = "box" /\ call.args[2] # NoTexture

\* the color array that gates the body pass of a rect, image or box call
BodyColor(call) == IF HasTexture(call) THEN tintColor ELSE fillColor

IsOutlineDraw(c) ==
  /\ c.program = "colorShader"
  /\ c.vertices \in {"rectangleWireframe.vertices", "cubeWireframe.vertices"}
  /\ c.color = colHeap[strokeColor]

IsBodyDraw(c, call) ==
  /\ c.vertices \in {"rectangle.vertices", "cube.vertices"}
  /\ c.program = IF HasTexture(call) THEN "textureShader" ELSE "colorShader"
  /\ c.color = colHeap[BodyColor(call)]

\* C4: a primitive call leaves the depth of the matrix stack as it found it.
C4_PrimitiveKeepsDepth ==
  [][ lastCall'.name \in Primitives
        => Len(mvMatrixStack') = Len(mvMatrixStack) ]_vars

C4_Witness ==
  /\ lastCall.name = "image"
  /\ imageModeValue = "center"
  /\ Len(mvMatrixStack) = 2
  /\ Len(DrawCalls(glLog)) = 1

\* C5: rect, box and image called with a stroke of alpha 0 and with alpha 0 in
\* the color of their body pass (the fill, or the tint when there is a
\* texture) issue no draw call.
C5_TransparentDrawsNothing ==
  [][ ( /\ lastCall'.name \in {"rect", "box", "image"}
        /\ Alpha(strokeColor) = 0
        /\ Alpha(BodyColor(lastCall')) = 0 )
        => DrawCalls(glLog') = <<>> ]_vars

C5_Witness ==
  /\ lastCall.name = "box"
  /\ HasTexture(lastCall)
  /\ Alpha(strokeColor) = 0
  /\ Alpha(tintColor) = 0
  /\ Alpha(fillColor) # 0
  /\ DrawCalls(glLog) = <<>>

C7_BoxBodyExclusive ==
  [][ lastCall'.name = "box"
        => LET body == SelectSeq(glLog', LAMBDA c : c.vertices = "cube.vertices")
               gate == IF HasTexture(lastCall') THEN tintColor ELSE fillColor
           IN  /\ Len(body) <= 1
               /\ Len(body) = 1 <=> Alpha(gate) # 0
               /\ \A i \in 1..Len(body) :
                    /\ body[i].program = IF HasTexture(lastCall')
                                         THEN "textureShader" ELSE "colorShader"
                    /\ body[i].color = colHeap[gate] ]_vars

C7_Witness ==
  /\ lastCall.name = "box"
  /\ HasTexture(lastCall)
  /\ Alpha(tintColor) = 0
  /\ Alpha(fillColor) # 0
  /\ Alpha(strokeColor) # 0
  /\ Len(DrawCalls(glLog)) = 1

\* C14: rect(10,10,50,30) on a renderer in the state the constructor leaves
\* (empty stack, identity model view matrix, white fill, black stroke, corner
\* mode) makes exactly these calls, in this order: pushMatrix, translate(10,
\* 10, 0), scale(50, 30, 1), one LINE_STRIP draw of the wireframe in black,
\* one TRIANGLE_STRIP draw of the rectangle in white, popMatrix; both draws
\* are bound with the translated and scaled model view matrix, and the stack
\* depth and the current matrix are afterwards what they were before.
C14_RectCallSequence ==
  [][ ( /\ lastCall'.name = "rect"
        /\ lastCall'.args = <<10, 10, 50, 30>>
        /\ mvMatrixStack = <<>>
        /\ matHeap[mvMatrix] = Identity
        /\ colHeap[fillColor] = <<255, 255, 255, 255>>
        /\ colHeap[strokeColor] = <<0, 0, 0, 255>>
        /\ rectModeValue = "corner" )
        => LET log == glLog'
               bound == <<50,0,0,0, 0,30,0,0, 0,0,1,0, 10,10,0,1>>
           IN  /\ Len(log) = 6
               /\ log[1].call = "pushMatrix"
               /\ log[2].call = "translate" /\ log[2].arg = <<10, 10, 0>>
               /\ log[3].call = "scale" /\ log[3].arg = <<50, 30, 1>>
               /\ log[4].call = "drawArrays" /\ log[4].arg = <<"LINE_STRIP">>
               /\ log[4].vertices = "rectangleWireframe.vertices"
               /\ log[4].program = "colorShader"
               /\ log[4].color = <<0, 0, 0, 255>>
               /\ log[4].mv = bound
               /\ log[5].call = "drawArrays" /\ log[5].arg = <<"TRIANGLE_STRIP">>
               /\ log[5].vertices = "rectangle.vertices"
               /\ log[5].program = "colorShader"
               /\ log[5].color = <<255, 255, 255, 255>>
               /\ log[5].mv = bound
               /\ log[6].call = "popMatrix"
               /\ mvMatrixStack' = <<>>
               /\ matHeap'[mvMatrix'] = Identity ]_vars

C14_Witness ==
  /\ lastCall.name = "rect"
  /\ lastCall.args = <<10, 10, 50, 30>>
  /\ Len(glLog) = 6
  /\ glLog[4].color = <<0, 0, 0, 255>>
  /\ glLog[5].color = <<255, 255, 255, 255>>
  /\ rectModeValue = "corner"
  /\ mvMatrixStack = <<>>
  /\ nPush = 0

----------------------------------------------------------------------------
(* Claims about the colors. *)

\* C8: every hex2rgba call returns the array that is in the cache for its
\* argument when the call returns, so that any two calls with the same string
\* return the same array.
C8_ReturnsCachedInstance ==
  [][ lastCall'.name = "hex2rgba"
        => lastCall'.ret = cache'[lastCall'.args[1]] ]_vars

\* C9: after a call of defaults() the tint and the fill are white, the stroke
\* is black, the stroke weight is 1, blending is enabled with the alpha
\* function and the depth test is disabled.
C9_DefaultsResets ==
  lastCall.name = "defaults"
    => /\ colHeap[tintColor] = <<255, 255, 255, 255>>
       /\ colHeap[fillColor] = <<255, 255, 255, 255>>
       /\ colHeap[strokeColor] = <<0, 0, 0, 255>>
       /\ strokeWeightValue = 1
       /\ glState.lineWidth = 1
       /\ glState.blend
       /\ glState.blendFunc = <<"SRC_ALPHA", "ONE_MINUS_SRC_ALPHA">>
       /\ ~glState.depthTest

\* C10: an operation on one of the three color slots leaves the value of the
\* other two slots as it was.
C10_SlotsIndependent ==
  [][ /\ lastCall'.name \in {"tint", "noTint"}
        => /\ colHeap'[fillColor'] = colHeap[fillColor]
           /\ colHeap'[strokeColor'] = colHeap[strokeColor]
      /\ lastCall'.name \in {"fill", "noFill"}
        => /\ colHeap'[tintColor'] = colHeap[tintColor]
           /\ colHeap'[strokeColor'] = colHeap[strokeColor]
      /\ lastCall'.name \in {"stroke", "noStroke"}
        => /\ colHeap'[tintColor'] = colHeap[tintColor]
           /\ colHeap'[fillColor'] = colHeap[fillColor] ]_vars

----------------------------------------------------------------------------
(* Claims about the backend state. *)

\* the calls of a log with one of the given backend functions
CallsOf(log, names) == SelectSeq(log, LAMBDA c : c.call \in names)

\* C11: a strokeWeight(w) call issues lineWidth(w), once, exactly when w is
\* not the stored stroke weight, and nothing when it is; so each call adds as
\* many lineWidth calls as value changes (one or none), and in every state
\* the stored stroke weight is the last value sent to the backend.
C11_LineWidthOnlyOnChange ==
  [][ /\ lastCall'.name = "strokeWeight"
        => LET w == lastCall'.args[1]
               sent == CallsOf(glLog', {"lineWidth"})
           IN  /\ w # strokeWeightValue
                    => /\ Len(sent) = 1
                       /\ sent[1].arg = <<w>>
                       /\ strokeWeightValue' # strokeWeightValue
               /\ w = strokeWeightValue
                    => /\ glLog' = <<>>
                       /\ strokeWeightValue' = strokeWeightValue
               /\ strokeWeightValue' = w
      /\ strokeWeightValue' = glState'.lineWidth ]_vars

C11_Witness ==
  /\ lastCall.name = "strokeWeight"
  /\ lastCall.args = <<0>>
  /\ strokeWeightValue = 0
  /\ glState.lineWidth = 0
  /\ glLog = <<>>

\* C12: after a blendMode call the blend state of the backend depends on the
\* argument of that call alone: "alpha" enables blending with (SRC_ALPHA,
\* ONE_MINUS_SRC_ALPHA), "add" and "additive" enable it with (SRC_ALPHA, ONE),
\* anything else disables it.
C12_BlendStateFromLastMode ==
  lastCall.name = "blendMode"
    => LET mode == lastCall.args[1]
       IN  /\ mode = "alpha"
                => /\ glState.blend
                   /\ glState.blendFunc = <<"SRC_ALPHA", "ONE_MINUS_SRC_ALPHA">>
           /\ mode \in {"add", "additive"}
                => /\ glState.blend
                   /\ glState.blendFunc = <<"SRC_ALPHA", "ONE">>
           /\ mode \notin {"alpha", "add", "additive"} => ~glState.blend

\* blendMode(undefined) right after an additive mode: the blend function is
\* still the additive one and blending is disabled
C12_Witness ==
  /\ lastCall.name = "blendMode"
  /\ lastCall.args = <<"undefined">>
  /\ glState.blendFunc = <<"SRC_ALPHA", "ONE">>
  /\ ~glState.blend

\* the mode of the latest blendMode call was "alpha" (the constructor makes
\* one through defaults()): only blendMode changes the blend state, and it
\* leaves this state after "alpha" and after no other mode
LatestModeIsAlpha ==
  glState.blend /\ glState.blendFunc = <<"SRC_ALPHA", "ONE_MINUS_SRC_ALPHA">>

\* C13: a blendMode("alpha") call whose mode is that of the blendMode call
\* before it issues no enable and no blendFunc call: the alpha blend function
\* is set once.
C13_NoRedundantBlendCalls ==
  [][ ( /\ lastCall'.name = "blendMode"
        /\ lastCall'.args = <<"alpha">>
        /\ LatestModeIsAlpha )
        => CallsOf(glLog', {"enable", "blendFunc"}) = <<>> ]_vars

----------------------------------------------------------------------------
(* Claims about frames, teardown and buffers. *)

\* C15: after a loop call the current model view matrix is the identity and
\* the projection matrix is the perspective projection of 45 degrees computed
\* from this.width and this.height, whatever the matrices were before.
C15_LoopResetsMatrices ==
  [][ lastCall'.name = "loop"
        => /\ matHeap'[mvMatrix'] = Identity
           /\ projMatrix'.op = "perspective"
           /\ projMatrix'.fov = 45
           /\ projMatrix'.w = thisWidth'
           /\ projMatrix'.h = thisHeight' ]_vars

\* a second loop call on a canvas of another size than the default one, made
\* after a translation that was pushed on the stack
C15_Witness ==
  /\ lastCall.name = "loop"
  /\ frameCount = 2
  /\ thisWidth = 200
  /\ Len(mvMatrixStack) = 1
  /\ matHeap[mvMatrixStack[1]] # Identity
  /\ matHeap[mvMatrix] = Identity

\* the destroy calls a log holds for the sub-resource r
DestroysOf(log, r) ==
  SelectSeq(log, LAMBDA c : c.call = "destroy" /\ c.arg[1] = r)

\* C16: destroy() on a renderer that has its fields calls destroy on each of
\* the six sub-resources, whichever of these calls raise an exception, and
\* returns without raising.
C16_DestroyReleasesEach ==
  [][ (lastCall'.name = "destroy" /\ ownFields)
        => /\ lastCall'.ret = NoRef
           /\ \A r \in Resources : Len(DestroysOf(glLog', r)) = 1
           /\ \A r \in Resources : ~resources'[r].field ]_vars

C16_Witness ==
  /\ lastCall.name = "destroy"
  /\ lastCall.args = <<{"colorShader", "cube"}>>
  /\ lastCall.ret = NoRef
  /\ DestroysOf(glLog, "colorShader")[1].arg[2] = "throws"
  /\ Len(DestroysOf(glLog, "cubeWireframe")) = 1

\* C17: every sub-resource is created once, by the constructor; no operation
\* but destroy() calls its destroy function; after destroy() the function has
\* been called once, and a further destroy() does not call it again.
C17_ReleasedOnce ==
  [][ /\ lastCall'.name # "destroy" => resources' = resources
      /\ \A r \in Resources :
            /\ resources'[r].created = 1
            /\ resources'[r].destroyed <= 1
            /\ lastCall'.name = "destroy" => resources'[r].destroyed = 1 ]_vars

\* a destroy() call on a renderer that was destroyed before
C17_Witness ==
  /\ lastCall.name = "destroy"
  /\ CallsOf(glLog, {"destroy"}) = <<>>
  /\ CallsOf(glLog, {"clearCache"}) # <<>>
  /\ \A r \in Resources : resources[r].destroyed = 1

\* C18: rect, image and box create no buffer and leave the sub-resources as
\* the constructor built them; triangle creates exactly one vertex buffer, of
\* its three vertices, in every call, whether a pass is drawn or not.
C18_OnlyTriangleCreatesBuffer ==
  [][ /\ lastCall'.name \in {"rect", "image", "box"}
        => /\ CallsOf(glLog', {"newVertexBuffer", "newIndexBuffer"}) = <<>>
           /\ resources' = resources
      /\ lastCall'.name = "triangle"
        => LET made == CallsOf(glLog', {"newVertexBuffer", "newIndexBuffer"})
               v == lastCall'.args
           IN  /\ Len(made) = 1
               /\ made[1].call = "newVertexBuffer"
               /\ made[1].arg = v[1] \o v[2] \o v[3]
               /\ Len(made[1].arg) = 9
               /\ resources' = resources ]_vars

\* a triangle call that draws neither pass
C18_Witness ==
  /\ lastCall.name = "triangle"
  /\ DrawCalls(glLog) = <<>>
  /\ Len(CallsOf(glLog, {"newVertexBuffer"})) = 1

----------------------------------------------------------------------------
(* Claims about intersectRayTriangle. *)

\* the triangle of a call has no area: its three points are on one line
Degenerate(args) ==
  Cross(Subtract(args[2], args[1]), Subtract(args[3], args[1])) = <<0, 0, 0>>

\* the normal of the triangle of a call
Normal(args) == Cross(Subtract(args[2], args[1]), Subtract(args[3], args[1]))

C20_ParallelRay ==
  (lastCall.name = "intersectRayTriangle" /\ lastCall.ret.kind = "returned")
    => LET args == lastCall.args
           n == Normal(args)
       IN  (~Degenerate(args) /\ Dot(n, args[4].direction) = 0)
             => lastCall.ret.value =
                  IF Dot(n, Subtract(args[4].position, args[1])) = 0 THEN 2 ELSE 0

\* a ray in a plane parallel to that of the triangle and off it
C20_Witness ==
  /\ lastCall.name = "intersectRayTriangle"
  /\ lastCall.ret.kind = "returned"
  /\ lastCall.args[2] = <<1, 0, 0>>
  /\ lastCall.args[3] = <<0, 1, 0>>
  /\ lastCall.args[4] = [position |-> <<0, 0, 1>>, direction |-> <<1, 1, 0>>]
  /\ lastCall.ret.value = 0

\* C21: for a triangle that is not degenerate and a ray that is not parallel
\* to its plane, intersectRayTriangle returns 1 exactly when the ray meets the
\* plane at a parameter r >= 0 and the point P where it meets it is inside or
\* on the triangle, and 0 otherwise; every result is one of -1, 0, 1, 2.
\* With w = P - v0 = s u + t v, the coordinates are s = n.(w x v) / n.n and
\* t = n.(u x w) / n.n; P = v0 + wb / b, so that each sign is taken after a
\* multiplication by b.
C21_OneExactlyInside ==
  (lastCall.name = "intersectRayTriangle" /\ lastCall.ret.kind = "returned")
    => LET args == lastCall.args
           u == Subtract(args[2], args[1])
           v == Subtract(args[3], args[1])
           n == Normal(args)
           w0 == Subtract(args[4].position, args[1])
           dir == args[4].direction
           a == -Dot(n, w0)
           b == Dot(n, dir)
           wb == <<w0[1] * b + dir[1] * a, w0[2] * b + dir[2] * a,
                   w0[3] * b + dir[3] * a>>
           sb == Dot(n, Cross(wb, v))
           tb == Dot(n, Cross(u, wb))
           inside == /\ a * b >= 0
                     /\ sb * b >= 0
                     /\ sb * b <= Dot(n, n) * b * b
                     /\ tb * b >= 0
                     /\ (sb + tb) * b <= Dot(n, n) * b * b
       IN  /\ lastCall.ret.value \in {-1, 0, 1, 2}
           /\ (~Degenerate(args) /\ b # 0)
                => lastCall.ret.value = IF inside THEN 1 ELSE 0

\* a ray that meets the triangle in the middle of its edge from v1 to v2, at
\* (1/2, 1/2, 1/2), where s + t = 1
C21_Witness ==
  /\ lastCall.name = "intersectRayTriangle"
  /\ lastCall.ret.kind = "returned"
  /\ lastCall.args[2] = <<1, 0, 0>>
  /\ lastCall.args[3] = <<0, 1, 1>>
  /\ lastCall.args[4] = [position |-> <<0, 0, 1>>, direction |-> <<1, 1, -1>>]
  /\ lastCall.ret.value = 1

\* C22: intersectRayTriangle writes the point into the array the caller gave
\* as its last argument only when it returns 1: when it returns -1, 0 or 2
\* the array holds what it held before the call.
C22_WritesOnlyOnOne ==
  (lastCall.name = "intersectRayTriangle" /\ lastCall.ret.kind = "returned")
    => (lastCall.ret.value # 1
          => LET after == lastCall.ret.intersection
                 before == lastCall.args[5]
             IN  \A i \in 1..3 : after.v[i] = before[i] * after.d)

----------------------------------------------------------------------------
(* Claims about unproject and createRay. *)

\* C23: the ray createRay(p0, p1, ...) returns has, when the call returns and
\* all at once, a position that holds the unprojected p0, a lookAt that holds
\* the unprojected p1 and a direction that holds the unprojected p1 minus the
\* unprojected p0, divided by its length (for matrices with an inverse).
C23_RayHoldsAllThree ==
  (lastCall.name = "createRay" /\ lastCall.ret.kind = "returned")
    => LET args == lastCall.args
           ray == lastCall.ret.value
           arrays == lastCall.ret.arrays
           u0 == unproject(args[1], args[3], args[4], args[5])
           u1 == unproject(args[2], args[3], args[4], args[5])
           one == Frac(1, 1)
           zero == Frac(0, 1)
           FDot(a, b) == FAdd(FAdd(FMul(a[1], b[1]), FMul(a[2], b[2])), FMul(a[3], b[3]))
           FCross(a, b) == <<FSub(FMul(a[2], b[3]), FMul(a[3], b[2])),
                             FSub(FMul(a[3], b[1]), FMul(a[1], b[3])),
                             FSub(FMul(a[1], b[2]), FMul(a[2], b[1]))>>
           \* the array holds the vector q
           Holds(array, q) ==
             IF ~array.unit THEN array.xyz = q
             ELSE IF array.xyz = <<zero, zero, zero>> THEN q = <<zero, zero, zero>>
             ELSE /\ FDot(q, q) = one
                  /\ FCross(array.xyz, q) = <<zero, zero, zero>>
                  /\ FDot(array.xyz, q).n > 0
       IN  Determinant(Multiply(args[5], args[4])) # 0
             => /\ Holds(arrays[ray.position], <<u0[1], u0[2], u0[3]>>)
                /\ Holds(arrays[ray.lookAt], <<u1[1], u1[2], u1[3]>>)
                /\ arrays[ray.direction].unit
                /\ arrays[ray.direction].xyz =
                     <<FSub(u1[1], u0[1]), FSub(u1[2], u0[2]), FSub(u1[3], u0[3])>>

\* C28: for a model view and a projection matrix whose product has an
\* inverse, the forward pipeline maps the point unproject returns for a point
\* [x, y, z] of the screen (z = 0 or 1) back to [x, y, z].
C28_UnprojectRoundTrip ==
  (lastCall.name = "unproject" /\ lastCall.ret.kind = "returned")
    => LET args == lastCall.args
           p == args[1]
       IN  Determinant(Multiply(args[4], args[3])) # 0
             => project(lastCall.ret.value, args[2], args[3], args[4])
                  = <<Frac(p[1], 1), Frac(p[2], 1), Frac(p[3], 1)>>

\* a point of the far plane, off the centre of a viewport that does not start
\* at the origin, under a perspective projection and a scaling and shifting
\* model view matrix: it unprojects to (-2, 3, -3/2)
C28_Witness ==
  /\ lastCall.name = "unproject"
  /\ lastCall.ret.kind = "returned"
  /\ lastCall.args = <<<<1, 0, 1>>, <<1, 1, 2, 2>>, ScaleAndShift, Frustum>>
  /\ lastCall.ret.value[4] # NotFinite
  /\ lastCall.ret.value[2] # Frac(0, 1)

----------------------------------------------------------------------------
(* Claims about the values of hex2rgba and about the power-of-two helpers. *)

\* C24: hex2rgba("#f00"), hex2rgba("#ff0000") and hex2rgba("rgb(255,0,0)")
\* each return [1, 0, 0, 1], and every "#rgb" string gives the value its
\* six-digit form "#rrggbb" parses to, with alpha 1 (a channel n is n / 255).
C24_ShortHexAsLongHex ==
  (lastCall.name = "hex2rgba" /\ lastCall.ret.kind = "returned")
    => LET color == lastCall.args[1]
           value == lastCall.ret.value
       IN  /\ color \in {Red3, Red6, RedRgb} => value = <<255, 0, 0, 255>>
           /\ (Len(color) = 4 /\ color[1] = "#")
                => /\ value = ParseColor(<<"#", color[2], color[2], color[3], color[3],
                                           color[4], color[4]>>)
                   /\ value[4] = 255

\* "#1af" has parsed to [17, 170, 255, 255] / 255
C24_Witness ==
  /\ lastCall.name = "hex2rgba"
  /\ lastCall.ret.kind = "returned"
  /\ lastCall.args[1] = <<"#", "1", "a", "f">>
  /\ lastCall.ret.value = <<17, 170, 255, 255>>

C26_IsPowerOfTwo ==
  (lastCall.name = "isPowerOfTwo" /\ lastCall.ret.kind = "returned")
    => LET x == lastCall.args[1]
       IN  x >= 0 => (lastCall.ret.value <=> \E k \in 0..30 : x = 2 ^ k)

----------------------------------------------------------------------------
(* Claims about the constructor. *)

\* C27: when the constructor is given two functions, the one in the place
\* the documentation calls successCallback (the second argument, after
\* canvas) is called exactly once if a context was created and not at all if
\* none was, the one in the place it calls failCallback (the third argument)
\* is called exactly once if none was created and not at all if one was, and
\* never both.
C27_DocumentedCallbacks ==
  (/\ lastCall.name = "Tilt.Renderer"
   /\ lastCall.ret.kind \in {"returned", "raised"}
   /\ lastCall.args[2] = "function"
   /\ lastCall.args[3] = "function")
    => LET created == create3DContext(lastCall.args[4]) = "context"
           nSuccess == Len(SelectSeq(glLog, LAMBDA c : c.call = "callback"
                                                      /\ c.arg = <<"second">>))
           nFail == Len(SelectSeq(glLog, LAMBDA c : c.call = "callback"
                                                   /\ c.arg = <<"third">>))
       IN  /\ nSuccess = (IF created THEN 1 ELSE 0)
           /\ nFail = (IF created THEN 0 ELSE 1)
           /\ ~(nSuccess > 0 /\ nFail > 0)

----------------------------------------------------------------------------
(* Claims about the order of the passes and about the frame counters. *)

C30_FrameCounters ==
  (\A i \in 1..(Len(loopTimes) - 1) : loopTimes[i] <= loopTimes[i + 1])
    => LET n == Len(loopTimes)
       IN  /\ frameCount = n
           /\ n = 1 => (frameDelta = 0 /\ elapsedTime = 0)
           /\ n >= 2 => /\ frameDelta = loopTimes[n] - loopTimes[n - 1]
                        /\ frameRate = <<1000, frameDelta>>
           /\ n >= 1 => elapsedTime = loopTimes[n] - loopTimes[1]

\* three frames, the second in the same millisecond as the first
C30_Witness ==
  /\ lastCall.name = "loop"
  /\ loopTimes = <<1, 1, 3>>
  /\ frameCount = 3
  /\ frameDelta = 2
  /\ elapsedTime = 2

----------------------------------------------------------------------------
(* Claims about what the calls leave unchanged. *)

\* C33: intersectRayTriangle leaves its ray as it was: whatever it returns,
\* ray.position and ray.direction hold after the call the values they held
\* before it.
C33_RayUnchanged ==
  (lastCall.name = "intersectRayTriangle" /\ lastCall.ret.kind = "returned")
    => LET before == lastCall.args[4]
           after == lastCall.ret.ray
       IN  /\ \A i \in 1..3 : after.position.v[i] = before.position[i] * after.position.d
           /\ \A i \in 1..3 : after.direction.v[i] = before.direction[i] * after.direction.d

\* C31: a rect call in "center" mode at (x, y, w, h) makes the calls, in
\* order and with the same arguments and matrices, that a rect call in
\* "corner" mode at (x - w/2, y - h/2, w, h) makes from the same state, and
\* an image call in "center" mode those of an image call in "corner" mode at
\* the shifted place; a rect call makes the same calls whatever the image
\* mode and an image call whatever the rect mode; rectMode leaves the image
\* mode and imageMode the rect mode as they were.
C31_CenterIsShiftedCorner ==
  [][ /\ lastCall'.name = "rect"
        => LET a == lastCall'.args
               Corner(x, y) == rect([Cur EXCEPT !.rectMode = "corner"], x, y, a[3], a[4]).log
               Other(m) == rect([Cur EXCEPT !.imageMode = m], a[1], a[2], a[3], a[4]).log
           IN  /\ rectModeValue = "center"
                    => glLog' = Corner(a[1] - a[3] \div 2, a[2] - a[4] \div 2)
               /\ rectModeValue = "corner" => glLog' = Corner(a[1], a[2])
               /\ \A m \in ModeArgs : glLog' = Other(m)
      /\ lastCall'.name = "image"
        => LET t == lastCall'.args[1]
               a == lastCall'.args[2]
               w == IF a.width = <<>> \/ a.height = <<>> THEN t.width ELSE a.width[1]
               h == IF a.width = <<>> \/ a.height = <<>> THEN t.height ELSE a.height[1]
               Corner(x, y) == image([Cur EXCEPT !.imageMode = "corner"], t, x, y,
                                     a.width, a.height, a.texCoord).log
               Other(m) == image([Cur EXCEPT !.rectMode = m], t, a.x, a.y,
                                 a.width, a.height, a.texCoord).log
           IN  /\ imageModeValue = "center"
                    => glLog' = Corner(a.x - w \div 2, a.y - h \div 2)
               /\ imageModeValue = "corner" => glLog' = Corner(a.x, a.y)
               /\ \A m \in ModeArgs : glLog' = Other(m)
      /\ lastCall'.name = "rectMode"
        => (rectModeValue' = lastCall'.args[1] /\ imageModeValue' = imageModeValue)
      /\ lastCall'.name = "imageMode"
        => (imageModeValue' = lastCall'.args[1] /\ rectModeValue' = rectModeValue) ]_vars

\* a rect call in "center" mode, with the images in "corner" mode, has
\* translated by (10 - 25, 10 - 15)
C31_Witness ==
  /\ lastCall.name = "rect"
  /\ rectModeValue = "center"
  /\ imageModeValue = "corner"
  /\ Len(glLog) >= 3
  /\ glLog[2].call = "translate"
  /\ glLog[2].arg = <<-15, -5, 0>>
  /\ Len(DrawCalls(glLog)) = 2

\* C32: in every state each array in the color cache holds the parse of its
\* key string, so that no tint, fill, stroke, noTint, noFill, noStroke or
\* defaults call changes what a later hex2rgba call returns.
C32_CacheHoldsParse ==
  \A color \in ColorStrings :
    cache[color] # NoRef => colHeap[cache[color]] = ParseColor(color)

\* C34: a loop call leaves the matrix stack as it was: the depth and the
\* value of every entry are those of before the call, so that the entries
\* pushed and not popped in earlier frames are on the stack when the next
\* frame starts, each with the value it was pushed with, and the depth after
\* the call is the number of pushes that no pop has matched (the pops that
\* found the stack empty match none).
C34_LoopKeepsStack ==
  [][ lastCall'.name = "loop"
        => /\ Len(mvMatrixStack') = Len(mvMatrixStack)
           /\ \A i \in 1..Len(mvMatrixStack) :
                matHeap'[mvMatrixStack'[i]] = matHeap[mvMatrixStack[i]]
           /\ \A i \in 1..Len(mvMatrixStack') : matHeap'[mvMatrixStack'[i]] = saved'[i]
           /\ Len(mvMatrixStack') = nPush' - (nPop' - nEmptyPop') ]_vars

\* the second frame starts with the one entry that the first frame pushed,
\* translated, pushed again and popped once
C34_Witness ==
  /\ lastCall.name = "loop"
  /\ frameCount = 2
  /\ nPush = 2 /\ nPop = 1 /\ nEmptyPop = 0
  /\ Len(mvMatrixStack) = 1
  /\ matHeap[mvMatrix] = Identity

----------------------------------------------------------------------------
(* Claims about the GUI handler. *)

\* the elements of the list that a click at (x, y) is for, in the order of
\* the list: those whose bounds strictly contain the point and that have an
\* onclick function
Clickable(els, x, y) ==
  SelectSeq(els, LAMBDA e : Inside(e, x, y) /\ GuiElement[e].onclick.do # "none")

\* C35: a click call returns without raising, and the onclick functions it
\* called are those of the elements of the list it found whose bounds
\* strictly contain the point and that have an onclick function, each once
\* for each time the element is in the list, in the order of the list, also
\* where an onclick function calls push or remove on the handler.
C35_ClickDispatch ==
  lastCall.name = "GUI.click"
    => /\ lastCall.ret.kind = "returned"
       /\ lastCall.ret.clicked
            = Clickable(lastCall.ret.before, lastCall.args[1], lastCall.args[2])

====
